---- MODULE Spec2Model ----
(***************************************************************************)
(* Session / data-synchronisation model of the Resonext application.       *)
(*                                                                         *)
(* The repository carries two versions of the App component (src/App.tsx   *)
(* lines 1-519, the "fix" version, and lines 520-1075, the earlier         *)
(* "bootstrap" version) and two versions of the data service               *)
(* (src/services/dataService.ts, which returns null on a failed fetch and  *)
(* whose signUp inserts an empty document, and src/unnamed/part_010, which *)
(* throws on a failed fetch and whose signUp inserts nothing).  The build  *)
(* is chosen once, in Init, and never changes.                             *)
(*                                                                         *)
(* React is modelled at the granularity of one commit: an action is one    *)
(* event handler or one promise continuation together with the render and  *)
(* the effects (data synchronisation, save) that its state updates cause.  *)
(***************************************************************************)
EXTENDS Integers, Sequences, FiniteSets, TLC

\* ---------------------------------------------------------------- bounds
MaxIds == 3          \* number of identifiers crypto.randomUUID() may hand out
MaxSaved == 2        \* cap on the length of savedProfessors and of sops
MaxPuts == 1         \* cap on the number of saveUserData requests in flight
MaxRacingPuts == 2   \* the same cap where the claim is about writes in flight together
MaxLoaded == 2       \* cap on the length of professors that Load More extends
MaxUniversities == 2 \* cap on the length of programDiscoveryResults.universities
MaxSavedPrograms == 3 \* cap on the length of savedPrograms
MaxSopRequests == 2  \* cap on the number of generateSop requests in flight

\* ------------------------------------------------------- program constants
MaxProfiles == 5     \* handleAddProfile: profiles.length < 5

\* ------------------------------------------------------------ value sets
Accounts == {"a", "b"}
NoSession == "null"
Null == 0                         \* activeProfileId === null
None == <<>>                      \* an absent optional value; a present one is <<v>>
NoDoc == None                     \* the store has no row for the account
NoError == "none"
SvcBuilds == {"throwing", "nullOnError"}
ProfUnivs == {"u1", "u2"}
\* what generateAnalysisAndEmail can answer
AnalysisResults == { [alignmentSummary |-> x, outreachEmail |-> x, emailSubject |-> x] : x \in {"r1", "r2"} }
Undefined == "undefined"
\* what the e-mail text fields of the modal can hold when Save is pressed
EmailTexts == {"r1", "r2", "edited"}
NoLoad == None
AllTiers == {"high", "medium", "low"}
NoFilters == [searchTerm |-> <<>>, emailStatusFilter |-> "all", sortOrder |-> "name-asc"]
DefaultProfileName == 0           \* 'Default Profile'; k > 0 stands for `Profile ${k}`

\* ------------------------------------------------------------- helpers
RECURSIVE SeqFilter(_, _)
\* Array.prototype.filter with the predicate given as the set of kept values
SeqFilter(s, keep) ==
    IF s = <<>> THEN <<>>
    ELSE IF Head(s) \in keep THEN <<Head(s)>> \o SeqFilter(Tail(s), keep)
         ELSE SeqFilter(Tail(s), keep)

Range(s) == { s[i] : i \in DOMAIN s }

\* createNewProfile(name): a fresh id and empty fields
createNewProfile(id, pname, owner) ==
    [id |-> id, profileName |-> pname, complete |-> FALSE, cv |-> FALSE, owner |-> owner]

\* the UserData document built from the five collections
UserData(p, a, sp, sg, so) ==
    [profiles |-> p, activeProfileId |-> a, savedProfessors |-> sp,
     savedPrograms |-> sg, sops |-> so]

EmptyData == UserData(<<>>, Null, <<>>, <<>>, <<>>)

\* documents the store may hold for the established account when the page loads
InitProfile == [id |-> 1, profileName |-> 1, complete |-> TRUE, cv |-> FALSE, owner |-> "a"]
InitDocs ==
    { UserData(<<InitProfile>>, 1, <<>>, <<>>, <<>>),
      UserData(<<InitProfile>>, 9, <<>>, <<>>, <<>>) }

VARIABLES
    appBuild, svcBuild,
    \* App state (useState)
    session, isInitialLoad, error, activeView,
    profiles, activeProfileId, savedProfessors, savedPrograms, sops,
    isDiscoveryLoading, isSopLoading, sopGenerationState, analysisModalState,
    isRegenerating, analyzingSavedProfId,
    \* App state of the professor discovery flow
    discoveryStage, universities, professors, groundingSources,
    selectedUniversity, selectedProfessor,
    \* App state of the program discovery flow
    programDiscoveryResults, isProgramDiscoveryLoading, isProgramDiscoveryLoadMoreLoading,
    \* ProfileForm state
    editedProfile, extractReq,
    \* DiscoverView, DiscoveryTab, ProgramDiscoveryTab and ResultsDisplay state
    activeSubView, tierFilters, searchMode, programTierFilters,
    \* ProfessorsView state (searchTerm, emailStatusFilter, sortOrder)
    professorFilters,
    \* environment: store, auth provider, network
    remote, users, puts, curLoad, staleLoads, requests, nextId,
    \* the file the browser saved from the last CSV export, with what
    \* ProfessorsView held when it was made
    exported,
    \* how many saveUserData requests the specification lets be in flight
    putCap,
    \* history
    loadedFor, lastLoad, saveRun, reachedFrom,
    \* history: the documents of the writes that failed
    dropped

formVars == <<editedProfile, extractReq>>
discVars == <<discoveryStage, universities, professors, groundingSources,
              selectedUniversity, selectedProfessor, reachedFrom>>
progVars == <<programDiscoveryResults, isProgramDiscoveryLoading,
              isProgramDiscoveryLoadMoreLoading>>
localVars == <<activeSubView, tierFilters, searchMode, programTierFilters, professorFilters>>
regenVars == <<isRegenerating, analyzingSavedProfId>>
vars == <<appBuild, svcBuild,
          session, isInitialLoad, error, activeView, profiles, activeProfileId,
          savedProfessors, savedPrograms, sops, isDiscoveryLoading, isSopLoading,
          sopGenerationState, analysisModalState, isRegenerating, analyzingSavedProfId,
          editedProfile, extractReq,
          discoveryStage, universities, professors, groundingSources,
          selectedUniversity, selectedProfessor, programDiscoveryResults,
          isProgramDiscoveryLoading, isProgramDiscoveryLoadMoreLoading,
          activeSubView, tierFilters, searchMode, programTierFilters,
          professorFilters, exported,
          remote, users, puts, curLoad, staleLoads, requests, nextId,
          putCap, loadedFor, lastLoad, saveRun, reachedFrom, dropped>>

\* ---------------------------------------------------------- derived state
currentDataInState == UserData(profiles, activeProfileId, savedProfessors, savedPrograms, sops)

\* profiles.find(p => p.id === id) || null
FindProfile(ps, id) ==
    IF \E i \in DOMAIN ps : ps[i].id = id
    THEN << ps[CHOOSE i \in DOMAIN ps : ps[i].id = id /\ \A j \in DOMAIN ps : ps[j].id = id => i <= j] >>
    ELSE None

activeProfile == FindProfile(profiles, activeProfileId)

isProfileComplete == activeProfile # None /\ activeProfile[1].complete

\* the application shell (header, sidebar, views) is rendered
ShellRendered ==
    /\ ~isInitialLoad
    /\ session # NoSession
    /\ (appBuild = "fix" => error = NoError)

LoginRendered == ~isInitialLoad /\ session = NoSession

\* the analysis result modal is on screen; its backdrop covers the shell
ModalShown == ShellRendered /\ analysisModalState # None

\* the SOP generation modal is rendered; its backdrop covers the shell too,
\* and the analysis result modal, later in the document, lies above it
SopModalShown == ShellRendered /\ sopGenerationState # None

\* the shell's header and navigation can be clicked
ShellUsable == ShellRendered /\ ~ModalShown /\ ~SopModalShown

\* which component the main area shows
ViewRendered(v) ==
    /\ ShellRendered
    /\ activeView = v
    /\ (v \in {"discover", "generate"} => isProfileComplete)
    /\ (v = "profile" /\ appBuild = "bootstrap" => activeProfileId # Null)

\* the component of view v is on screen and can be clicked
ViewUsable(v) == ViewRendered(v) /\ ~ModalShown /\ ~SopModalShown

\* --------------------------------------------------------------- effects
\* a save effect that returns early only during the initial session check
SaveSkippedOnlyInitialLoad(build, il, sess, d) == il

\* the early returns of the save effect
SaveSkipped(build, il, sess, d) ==
    \/ il
    \/ sess = NoSession
    \/ IF build = "fix"
       THEN d.profiles = <<>> /\ d.activeProfileId = Null
       ELSE d.profiles = <<>> /\ d.savedProfessors = <<>> /\ d.savedPrograms = <<>>

\* the saveUserData calls the save effect issues for the committed state
SaveEffect(build, il, sess, d) ==
    IF SaveSkipped(build, il, sess, d) THEN <<>>
    ELSE << [email |-> sess, data |-> d] >>

\* A saveUserData request in flight is [email, data] together with the session
\* in which the call was made, whether that session's load had completed, and
\* the outcome of the fetch whose continuation made the call ("none" for a
\* call outside a load's commit).
\* One commit.  The handler (or promise continuation) has produced
\*   h.session, h.isInitialLoad, h.data   the App state it set,
\*   h.sessChanged   setSession received a new session object,
\*   h.depsChanged   a dependency of the save effect was set,
\*   h.own           the saveUserData calls the handler made itself,
\*   h.curLoad       the load of the current effect instance still in flight,
\*   h.loadedFor     the account whose load has completed in this session,
\*   h.load          the getUserData outcome this commit applies, if any,
\*   h.run           the run of consecutive analysis saves this commit extends.
\* The data synchronisation effect runs when the session changed (cleanup of
\* the previous instance, then reset or a new getUserData), then the save effect.
Commit(h) ==
    LET reset == h.sessChanged /\ h.session = NoSession
        d3 == IF reset THEN EmptyData ELSE h.data
        switched == h.sessChanged /\ h.session # session
        lf3 == IF h.session = NoSession \/ switched THEN NoSession ELSE h.loadedFor
        calls == h.own \o (IF h.depsChanged \/ h.sessChanged
                           THEN SaveEffect(appBuild, h.isInitialLoad, h.session, d3)
                           ELSE <<>>)
        newPuts == { [email |-> c.email, data |-> c.data,
                      session |-> h.session, loaded |-> lf3 = c.email,
                      load |-> IF h.load = NoLoad THEN "none" ELSE h.load[1].outcome]
                     : c \in Range(calls) }
    IN  /\ session' = h.session
        /\ isInitialLoad' = h.isInitialLoad
        /\ profiles' = d3.profiles
        /\ activeProfileId' = d3.activeProfileId
        /\ savedProfessors' = d3.savedProfessors
        /\ savedPrograms' = d3.savedPrograms
        /\ sops' = d3.sops
        /\ IF h.sessChanged
           THEN /\ staleLoads' = IF h.curLoad = NoSession THEN staleLoads
                                 ELSE staleLoads \cup {h.curLoad}
                /\ curLoad' = h.session
           ELSE /\ staleLoads' = staleLoads
                /\ curLoad' = h.curLoad
        /\ Cardinality(puts \cup newPuts) <= putCap
        /\ puts' = puts \cup newPuts
        /\ loadedFor' = lf3
        /\ lastLoad' = h.load
        /\ saveRun' = h.run

\* a commit that touches neither the session nor the collections
NoCommit ==
    /\ UNCHANGED <<session, isInitialLoad, profiles, activeProfileId, savedProfessors,
                   savedPrograms, sops, curLoad, staleLoads, puts, loadedFor, saveRun>>
    /\ lastLoad' = NoLoad

\* the handler record of a commit that leaves the session as it is
Keep(d, deps) ==
    [session |-> session, isInitialLoad |-> isInitialLoad, data |-> d,
     sessChanged |-> FALSE, depsChanged |-> deps, own |-> <<>>,
     curLoad |-> curLoad, loadedFor |-> loadedFor, load |-> NoLoad, run |-> None]

\* ProfileForm's local state after a commit: the form is mounted exactly
\* while the profile view is rendered; its effect copies the active profile
\* into the draft when profiles or activeProfileId were set; ep and er are
\* the draft and the extraction the handler itself left.
FormCommit(touched, ep, er) ==
    LET was == ViewRendered("profile")
        now == ViewRendered("profile")'
    IN  /\ editedProfile' = IF ~now THEN None
                            ELSE IF was /\ ~touched THEN ep
                            ELSE activeProfile'
        /\ extractReq' = IF now /\ was THEN er ELSE None

\* the components of the Discover view and of the Saved tab that keep state
\* of their own
DiscoveryTabMounted == ViewRendered("discover") /\ activeSubView = "professors"
ProgramDiscoveryTabMounted == ViewRendered("discover") /\ activeSubView = "programs"
ResultsDisplayMounted ==
    /\ ProgramDiscoveryTabMounted
    /\ ~isProgramDiscoveryLoading
    /\ programDiscoveryResults # None

\* The state of those components after a commit: a component that stays
\* mounted keeps what the handler left (l), one that is mounted by this
\* commit or is not on screen has its useState initial value.
DiscoverCommit(l) ==
    /\ activeSubView' = IF ViewRendered("discover") /\ ViewRendered("discover")'
                         THEN l.activeSubView ELSE "professors"
    /\ tierFilters' = IF DiscoveryTabMounted /\ DiscoveryTabMounted'
                       THEN l.tierFilters ELSE AllTiers
    /\ searchMode' = IF ProgramDiscoveryTabMounted /\ ProgramDiscoveryTabMounted'
                      THEN l.searchMode ELSE "broad"
    /\ programTierFilters' = IF ResultsDisplayMounted /\ ResultsDisplayMounted'
                              THEN l.programTierFilters ELSE AllTiers
    /\ professorFilters' = IF ViewRendered("saved") /\ ViewRendered("saved")'
                            THEN l.professorFilters ELSE NoFilters

\* what a handler outside the Discover view leaves of the view's own state
Local ==
    [activeSubView |-> activeSubView, tierFilters |-> tierFilters,
     searchMode |-> searchMode, programTierFilters |-> programTierFilters,
     professorFilters |-> professorFilters]

\* ------------------------------------------------------------------ Init
\* the page after construction, with docs the documents the store may hold
\* for the established account
InitStore(app, docs) ==
    /\ appBuild = app
    /\ svcBuild \in SvcBuilds
    /\ session = NoSession
    /\ isInitialLoad = TRUE
    /\ error = NoError
    /\ activeView = "home"
    /\ profiles = <<>>
    /\ activeProfileId = Null
    /\ savedProfessors = <<>>
    /\ savedPrograms = <<>>
    /\ sops = <<>>
    /\ isDiscoveryLoading = FALSE
    /\ isSopLoading = FALSE
    /\ sopGenerationState = None
    /\ analysisModalState = None
    /\ isRegenerating = FALSE
    /\ analyzingSavedProfId = None
    /\ editedProfile = None
    /\ extractReq = None
    /\ discoveryStage = "search"
    /\ universities = None
    /\ professors = <<>>
    /\ groundingSources = <<>>
    /\ selectedUniversity = None
    /\ selectedProfessor = None
    /\ programDiscoveryResults = None
    /\ isProgramDiscoveryLoading = FALSE
    /\ isProgramDiscoveryLoadMoreLoading = FALSE
    /\ activeSubView = "professors"
    /\ tierFilters = AllTiers
    /\ searchMode = "broad"
    /\ programTierFilters = AllTiers
    /\ professorFilters = NoFilters
    /\ exported = None
    /\ remote \in { [a \in Accounts |-> IF a = "a" THEN <<d>> ELSE NoDoc] : d \in docs }
    /\ users = {"a"}
    /\ puts = {}
    /\ curLoad = NoSession
    /\ staleLoads = {}
    /\ requests = {}
    /\ nextId = 2
    /\ loadedFor = NoSession
    /\ lastLoad = NoLoad
    /\ saveRun = None
    /\ reachedFrom = "none"
    /\ putCap \in {MaxPuts, MaxRacingPuts}
    /\ dropped = {}

InitBuild(app) == InitStore(app, InitDocs) /\ putCap = MaxPuts

\* what only a failed write changes
builds == <<appBuild, svcBuild, putCap, dropped>>
uiVars == <<isDiscoveryLoading, isSopLoading, sopGenerationState, analysisModalState>>

\* ------------------------------------------------- session management
\* dataService.getSession().then(...): the stored session, or none
GetSessionResolve(s) ==
    /\ isInitialLoad
    /\ Commit([session |-> s, isInitialLoad |-> FALSE, data |-> currentDataInState,
               sessChanged |-> s # NoSession, depsChanged |-> TRUE, own |-> <<>>,
               curLoad |-> curLoad, loadedFor |-> loadedFor, load |-> NoLoad, run |-> None])
    /\ UNCHANGED <<builds, exported, regenVars, discVars, progVars, error, activeView, uiVars, remote, users, requests, nextId>>
    /\ FormCommit(FALSE, editedProfile, extractReq)
    /\ DiscoverCommit(Local)

\* the onAuthStateChange callback: setSession(session) for whatever session the
\* auth provider reports (sign-in or sign-out in another tab, token refresh)
AuthStateChange(s) ==
    /\ ~isInitialLoad
    /\ ~(s = NoSession /\ session = NoSession)
    /\ Commit([session |-> s, isInitialLoad |-> FALSE, data |-> currentDataInState,
               sessChanged |-> TRUE, depsChanged |-> TRUE, own |-> <<>>,
               curLoad |-> curLoad, loadedFor |-> loadedFor, load |-> NoLoad, run |-> None])
    /\ UNCHANGED <<builds, exported, regenVars, discVars, progVars, error, activeView, uiVars, remote, users, requests, nextId>>
    /\ FormCommit(FALSE, editedProfile, extractReq)
    /\ DiscoverCommit(Local)

\* handleLogin with accepted credentials: signIn makes the provider report
\* the session; the earlier App version then picks the view from a second fetch
handleLogin(acct) ==
    /\ LoginRendered
    /\ acct \in users
    /\ error' = IF appBuild = "fix" THEN NoError ELSE error
    /\ activeView' = IF appBuild = "fix" THEN activeView
                     ELSE IF remote[acct] # NoDoc /\ Len(remote[acct][1].profiles) > 0
                          THEN "home" ELSE "profile"
    /\ Commit([session |-> acct, isInitialLoad |-> FALSE, data |-> currentDataInState,
               sessChanged |-> TRUE, depsChanged |-> TRUE, own |-> <<>>,
               curLoad |-> curLoad, loadedFor |-> loadedFor, load |-> NoLoad, run |-> None])
    /\ UNCHANGED <<builds, exported, regenVars, discVars, progVars, uiVars, remote, users, requests, nextId>>
    /\ FormCommit(FALSE, editedProfile, extractReq)
    /\ DiscoverCommit(Local)

\* handleSignUp of an unregistered account; dataService.ts inserts an empty
\* document after the sign-up, the other data service inserts nothing
handleSignUp(acct) ==
    /\ LoginRendered
    /\ acct \notin users
    /\ users' = users \cup {acct}
    /\ error' = IF appBuild = "fix" THEN NoError ELSE error
    /\ activeView' = "profile"
    /\ Commit([session |-> acct, isInitialLoad |-> FALSE, data |-> currentDataInState,
               sessChanged |-> TRUE, depsChanged |-> TRUE, own |-> <<>>,
               curLoad |-> curLoad, loadedFor |-> loadedFor, load |-> NoLoad, run |-> None])
    /\ remote' = IF svcBuild = "nullOnError" /\ remote[acct] = NoDoc
                 THEN [remote EXCEPT ![acct] = <<EmptyData>>] ELSE remote
    /\ UNCHANGED <<builds, exported, regenVars, discVars, progVars, uiVars, requests, nextId>>
    /\ FormCommit(FALSE, editedProfile, extractReq)
    /\ DiscoverCommit(Local)

\* handleLogout: signOut, then the explicit reset of the collections
handleLogout ==
    /\ ShellUsable
    /\ activeView' = "home"
    /\ Commit([session |-> NoSession, isInitialLoad |-> FALSE, data |-> EmptyData,
               sessChanged |-> TRUE, depsChanged |-> TRUE, own |-> <<>>,
               curLoad |-> curLoad, loadedFor |-> loadedFor, load |-> NoLoad, run |-> None])
    /\ UNCHANGED <<builds, exported, regenVars, discVars, progVars, error, uiVars, remote, users, requests, nextId>>
    /\ FormCommit(TRUE, editedProfile, extractReq)
    /\ DiscoverCommit(Local)

\* ------------------------------------------------------ load and store
\* a load that takes the stored activeProfileId as it is
RepairActiveUnchecked(d) == d.activeProfileId

\* userActiveProfileId of loadAndInitializeUserData
RepairActive(d) ==
    IF d.activeProfileId # Null /\ \E i \in DOMAIN d.profiles : d.profiles[i].id = d.activeProfileId
    THEN d.activeProfileId
    ELSE IF Len(d.profiles) > 0 THEN d.profiles[1].id ELSE Null

\* what getUserData hands to its caller: the document, null, or a thrown error
getUserData(build, acct, fails) ==
    IF fails
    THEN IF build = "throwing" THEN [kind |-> "throw", data |-> EmptyData]
         ELSE [kind |-> "null", data |-> EmptyData]
    ELSE IF remote[acct] = NoDoc THEN [kind |-> "null", data |-> EmptyData]
         ELSE [kind |-> "data", data |-> remote[acct][1]]

\* the truth about the fetch, for the record
FetchOutcome(acct, fails) ==
    [email |-> acct,
     outcome |-> IF fails THEN "error" ELSE IF remote[acct] = NoDoc THEN "absent" ELSE "found",
     doc |-> IF fails THEN NoDoc ELSE remote[acct]]

\* the continuation of loadAndInitializeUserData of the current effect instance
LoadComplete(fails) ==
    /\ curLoad # NoSession
    /\ LET acct == curLoad
           r == getUserData(svcBuild, acct, fails)
           first == createNewProfile(nextId, DefaultProfileName, acct)
           boot == UserData(<<first>>, first.id, <<>>, <<>>, <<>>)
           base == [Keep(currentDataInState, FALSE) EXCEPT
                       !.curLoad = NoSession, !.loadedFor = acct,
                       !.load = <<FetchOutcome(acct, fails)>>]
       IN  CASE r.kind = "throw" ->
                  /\ error' = IF appBuild = "fix" THEN "load" ELSE error
                  /\ Commit(base)
                  /\ UNCHANGED nextId
            [] r.kind = "null" /\ appBuild = "fix" ->
                  /\ Commit([base EXCEPT !.data = EmptyData, !.depsChanged = TRUE])
                  /\ UNCHANGED <<error, nextId>>
            [] r.kind = "null" /\ appBuild = "bootstrap" ->
                  /\ nextId <= MaxIds
                  /\ nextId' = nextId + 1
                  /\ Commit([base EXCEPT !.data = boot, !.depsChanged = TRUE,
                                         !.own = << [email |-> acct, data |-> boot] >>])
                  /\ UNCHANGED error
            [] OTHER ->
                  /\ Commit([base EXCEPT !.data = [r.data EXCEPT !.activeProfileId = RepairActive(r.data)],
                                         !.depsChanged = TRUE])
                  /\ UNCHANGED <<error, nextId>>
    /\ UNCHANGED <<builds, exported, regenVars, discVars, progVars, activeView, uiVars, remote, users, requests>>
    /\ FormCommit(getUserData(svcBuild, curLoad, fails).kind # "throw", editedProfile, extractReq)
    /\ DiscoverCommit(Local)

\* the continuation of a load whose effect instance was cleaned up: the
\* isMounted check returns before any setter, but a thrown fetch error skips
\* the check and reaches the catch block
StaleLoadComplete(acct, fails) ==
    /\ acct \in staleLoads
    /\ staleLoads' = staleLoads \ {acct}
    /\ error' = IF fails /\ svcBuild = "throwing" /\ appBuild = "fix" THEN "load" ELSE error
    /\ UNCHANGED <<session, isInitialLoad, profiles, activeProfileId, savedProfessors,
                   savedPrograms, sops, curLoad, puts, loadedFor>>
    /\ lastLoad' = NoLoad
    /\ UNCHANGED <<builds, exported, regenVars, discVars, progVars, activeView, uiVars, remote, users, requests, nextId, saveRun>>
    /\ FormCommit(FALSE, editedProfile, extractReq)
    /\ DiscoverCommit(Local)

\* the store applies an upsert of saveUserData
PutArrives(p) ==
    /\ p \in puts
    /\ puts' = puts \ {p}
    /\ remote' = [remote EXCEPT ![p.email] = <<p.data>>]
    /\ UNCHANGED <<session, isInitialLoad, profiles, activeProfileId, savedProfessors,
                   savedPrograms, sops, curLoad, staleLoads, loadedFor>>
    /\ lastLoad' = NoLoad
    /\ UNCHANGED <<builds, exported, regenVars, discVars, progVars, error, activeView, uiVars, formVars, localVars, users, requests, nextId, saveRun>>

\* a saveUserData whose failure is shown to the user
PutFailsShowsError(p) ==
    /\ p \in puts
    /\ puts' = puts \ {p}
    /\ dropped' = dropped \cup {p.data}
    /\ error' = "save"
    /\ UNCHANGED <<session, isInitialLoad, profiles, activeProfileId, savedProfessors,
                   savedPrograms, sops, curLoad, staleLoads, loadedFor>>
    /\ lastLoad' = NoLoad
    /\ UNCHANGED <<appBuild, svcBuild, putCap, exported, regenVars, discVars, progVars,
                   activeView, uiVars, remote, users, requests, nextId, saveRun>>
    /\ FormCommit(FALSE, editedProfile, extractReq)
    /\ DiscoverCommit(Local)

\* the upsert of saveUserData fails: the error is logged and the promise,
\* which nothing awaits, resolves
PutFails(p) ==
    /\ p \in puts
    /\ puts' = puts \ {p}
    /\ dropped' = dropped \cup {p.data}
    /\ UNCHANGED <<session, isInitialLoad, profiles, activeProfileId, savedProfessors,
                   savedPrograms, sops, curLoad, staleLoads, loadedFor>>
    /\ lastLoad' = NoLoad
    /\ UNCHANGED <<appBuild, svcBuild, putCap, exported, regenVars, discVars, progVars, error,
                   activeView, uiVars, formVars, localVars, remote, users, requests, nextId, saveRun>>

\* --------------------------------------------------------- navigation
\* setActiveView from the sidebar, the bottom navigation or the header
setActiveView(v) ==
    /\ ShellUsable
    /\ v # activeView
    /\ activeView' = v
    /\ NoCommit
    /\ UNCHANGED <<builds, exported, regenVars, discVars, progVars, error, uiVars, remote, users, requests, nextId>>
    /\ FormCommit(FALSE, editedProfile, extractReq)
    /\ DiscoverCommit(Local)

\* --------------------------------------------------- saved professors
SavedProfessor(id, name, university, result, owner) ==
    [id |-> id, name |-> name, university |-> university,
     alignmentSummary |-> result.alignmentSummary,
     outreachEmail |-> result.outreachEmail,
     emailSubject |-> result.emailSubject, owner |-> owner]

NoResult == [alignmentSummary |-> Undefined, outreachEmail |-> Undefined, emailSubject |-> Undefined]

\* `${name}-${university}`.replace(/\s+/g, '-') of App.tsx and
\* `${name}-${university}`.replace(/\s+/g, '') of AddProfessorForm, for names
\* without white space
SlugId(name, university) == name \o "-" \o university

\* AddProfessorForm.handleSubmit -> handleAddSavedProfessor
handleAddSavedProfessor(name, university) ==
    /\ ViewUsable("saved")
    /\ Len(savedProfessors) < MaxSaved
    /\ Commit(Keep([currentDataInState EXCEPT !.savedProfessors =
                      Append(savedProfessors,
                             SavedProfessor(SlugId(name, university), name, university,
                                            NoResult, session))], TRUE))
    /\ UNCHANGED <<builds, exported, regenVars, discVars, progVars, error, activeView, uiVars, remote, users, requests, nextId>>
    /\ FormCommit(FALSE, editedProfile, extractReq)
    /\ DiscoverCommit(Local)

\* handleManualGenerateAndSaveEmail up to the await
handleManualGenerateAndSaveEmail(name, university) ==
    /\ ViewUsable("generate")
    /\ ~isDiscoveryLoading
    /\ isDiscoveryLoading' = TRUE
    /\ error' = NoError
    /\ requests' = requests \cup {[kind |-> "manualEmail", name |-> name,
                                   university |-> university, owner |-> session]}
    /\ NoCommit
    /\ UNCHANGED <<builds, exported, regenVars, discVars, progVars, activeView, isSopLoading, sopGenerationState, analysisModalState,
                   remote, users, nextId>>
    /\ FormCommit(FALSE, editedProfile, extractReq)
    /\ DiscoverCommit(Local)

\* generateAnalysisAndEmail answers: the new professor is appended
ManualEmailDone(r, result) ==
    /\ r \in requests /\ r.kind = "manualEmail"
    /\ Len(savedProfessors) < MaxSaved
    /\ requests' = requests \ {r}
    /\ isDiscoveryLoading' = FALSE
    /\ activeView' = "generate"
    /\ Commit(Keep([currentDataInState EXCEPT !.savedProfessors =
                      Append(savedProfessors,
                             SavedProfessor(SlugId(r.name, r.university), r.name, r.university,
                                            result, r.owner))], TRUE))
    /\ UNCHANGED <<builds, exported, regenVars, discVars, progVars, error, isSopLoading, sopGenerationState, analysisModalState,
                   remote, users, nextId>>
    /\ FormCommit(FALSE, editedProfile, extractReq)
    /\ DiscoverCommit(Local)

\* generateAnalysisAndEmail rejects: setError, and the loading flag is cleared
ManualEmailFails(r) ==
    /\ r \in requests /\ r.kind = "manualEmail"
    /\ requests' = requests \ {r}
    /\ isDiscoveryLoading' = FALSE
    /\ error' = "gateway"
    /\ NoCommit
    /\ UNCHANGED <<builds, exported, regenVars, discVars, progVars, activeView, isSopLoading, sopGenerationState, analysisModalState,
                   remote, users, nextId>>
    /\ FormCommit(FALSE, editedProfile, extractReq)
    /\ DiscoverCommit(Local)

\* ----------------------------------------------- professor discovery
\* what findMatchingUniversities answers with
TieredUniversities == [highTier |-> <<"u1">>, mediumTier |-> <<"u2">>, lowTier |-> <<>>]

\* the universities the 'universities' stage lists under the checked tiers
ListedUniversities ==
    IF universities = None THEN {}
    ELSE (IF "high" \in tierFilters THEN Range(universities[1].highTier) ELSE {})
         \cup (IF "medium" \in tierFilters THEN Range(universities[1].mediumTier) ELSE {})
         \cup (IF "low" \in tierFilters THEN Range(universities[1].lowTier) ELSE {})

\* the DiscoveryTab shows stage st and can be clicked
StageUsable(st) ==
    /\ ViewUsable("discover") /\ DiscoveryTabMounted
    /\ ~isDiscoveryLoading
    /\ discoveryStage = st

\* a toggle that also unchecks the last checked tier
ToggleTierNoFloor(filters, tier) ==
    IF tier \in filters THEN filters \ {tier} ELSE filters \cup {tier}

\* the updater handleTierFilterChange passes to setTierFilters, the same in
\* DiscoveryTab and in ResultsDisplay
ToggleTier(filters, tier) ==
    IF tier \in filters
    THEN IF Cardinality(filters) > 1 THEN filters \ {tier} ELSE filters
    ELSE filters \cup {tier}

\* DiscoveryTab.handleTierFilterChange
handleTierFilterChange(tier) ==
    /\ StageUsable("universities") /\ universities # None
    /\ NoCommit
    /\ UNCHANGED <<builds, exported, regenVars, discVars, progVars, error, activeView, uiVars, remote, users, requests, nextId>>
    /\ FormCommit(FALSE, editedProfile, extractReq)
    /\ DiscoverCommit([Local EXCEPT !.tierFilters = ToggleTier(tierFilters, tier)])

\* DiscoveryTab.handleSelectAllTiers
handleSelectAllTiers ==
    /\ StageUsable("universities") /\ universities # None
    /\ NoCommit
    /\ UNCHANGED <<builds, exported, regenVars, discVars, progVars, error, activeView, uiVars, remote, users, requests, nextId>>
    /\ FormCommit(FALSE, editedProfile, extractReq)
    /\ DiscoverCommit([Local EXCEPT !.tierFilters =
            IF Cardinality(tierFilters) = 3 THEN tierFilters ELSE AllTiers])

\* DiscoveryTab.handleFindUniversities up to the await (a country is entered)
handleFindUniversities ==
    /\ StageUsable("search")
    /\ isDiscoveryLoading' = TRUE
    /\ error' = NoError
    /\ requests' = requests \cup {[kind |-> "universities", owner |-> session]}
    /\ NoCommit
    /\ UNCHANGED <<builds, exported, regenVars, discVars, progVars, activeView, isSopLoading, sopGenerationState,
                   analysisModalState, remote, users, nextId>>
    /\ FormCommit(FALSE, editedProfile, extractReq)
    /\ DiscoverCommit(Local)

\* findMatchingUniversities answers
FindUniversitiesDone(r) ==
    /\ r \in requests /\ r.kind = "universities"
    /\ requests' = requests \ {r}
    /\ universities' = <<TieredUniversities>>
    /\ discoveryStage' = "universities"
    /\ isDiscoveryLoading' = FALSE
    /\ NoCommit
    /\ UNCHANGED <<builds, exported, regenVars, professors, groundingSources, selectedUniversity, selectedProfessor,
                   reachedFrom, progVars, error, activeView, isSopLoading, sopGenerationState,
                   analysisModalState, remote, users, nextId>>
    /\ FormCommit(FALSE, editedProfile, extractReq)
    /\ DiscoverCommit(Local)

\* DiscoveryTab.handleFindProfessors up to the await: from the search form
\* with the university typed in, or from a university of the tiered list
handleFindProfessors(uniName) ==
    /\ \/ StageUsable("search")
       \/ StageUsable("universities") /\ uniName \in ListedUniversities
    /\ isDiscoveryLoading' = TRUE
    /\ error' = NoError
    /\ selectedUniversity' = <<uniName>>
    /\ requests' = requests \cup {[kind |-> "professors", university |-> uniName,
                                   from |-> discoveryStage, owner |-> session]}
    /\ NoCommit
    /\ UNCHANGED <<builds, exported, regenVars, discoveryStage, universities, professors, groundingSources,
                   selectedProfessor, reachedFrom, progVars, activeView, isSopLoading,
                   sopGenerationState, analysisModalState, remote, users, nextId>>
    /\ FormCommit(FALSE, editedProfile, extractReq)
    /\ DiscoverCommit(Local)

\* findMatchingProfessors answers, with a professor or with none
FindProfessorsDone(r, found) ==
    /\ r \in requests /\ r.kind = "professors"
    /\ requests' = requests \ {r}
    /\ professors' = IF found THEN << [id |-> "d1", name |-> "n1", university |-> r.university] >>
                     ELSE <<>>
    /\ groundingSources' = <<"g1">>
    /\ discoveryStage' = "professors"
    /\ reachedFrom' = r.from
    /\ isDiscoveryLoading' = FALSE
    /\ NoCommit
    /\ UNCHANGED <<builds, exported, regenVars, universities, selectedUniversity, selectedProfessor, progVars, error,
                   activeView, isSopLoading, sopGenerationState, analysisModalState,
                   remote, users, nextId>>
    /\ FormCommit(FALSE, editedProfile, extractReq)
    /\ DiscoverCommit(Local)

\* findMatchingUniversities or findMatchingProfessors rejects
FindFails(r) ==
    /\ r \in requests /\ r.kind \in {"universities", "professors"}
    /\ requests' = requests \ {r}
    /\ error' = "gateway"
    /\ isDiscoveryLoading' = FALSE
    /\ NoCommit
    /\ UNCHANGED <<builds, exported, regenVars, discVars, progVars, activeView, isSopLoading, sopGenerationState,
                   analysisModalState, remote, users, nextId>>
    /\ FormCommit(FALSE, editedProfile, extractReq)
    /\ DiscoverCommit(Local)

\* DiscoveryTab.handleSelectProfessor
handleSelectProfessor(prof) ==
    /\ StageUsable("professors") /\ selectedUniversity # None
    /\ prof \in Range(professors)
    /\ selectedProfessor' = <<prof>>
    /\ discoveryStage' = "detail"
    /\ NoCommit
    /\ UNCHANGED <<builds, exported, regenVars, universities, professors, groundingSources, selectedUniversity,
                   reachedFrom, progVars, error, activeView, uiVars, remote, users,
                   requests, nextId>>
    /\ FormCommit(FALSE, editedProfile, extractReq)
    /\ DiscoverCommit(Local)

\* DiscoveryTab.handleBack, from the stage whose back button is rendered
handleBack ==
    /\ \/ StageUsable("detail") /\ selectedProfessor # None
       \/ StageUsable("professors") /\ selectedUniversity # None
       \/ StageUsable("universities") /\ universities # None
    /\ error' = NoError
    /\ IF discoveryStage = "detail"
       THEN /\ discoveryStage' = "professors"
            /\ UNCHANGED <<selectedUniversity, professors, groundingSources>>
       ELSE IF discoveryStage = "professors"
       THEN /\ selectedUniversity' = None
            /\ professors' = <<>>
            /\ groundingSources' = <<>>
            /\ discoveryStage' = IF universities # None THEN "universities" ELSE "search"
       ELSE /\ discoveryStage' = "search"
            /\ UNCHANGED <<selectedUniversity, professors, groundingSources>>
    /\ NoCommit
    /\ UNCHANGED <<builds, exported, regenVars, universities, selectedProfessor, reachedFrom, progVars, activeView,
                   uiVars, remote, users, requests, nextId>>
    /\ FormCommit(FALSE, editedProfile, extractReq)
    /\ DiscoverCommit(Local)

\* ------------------------------------------------ analysis result modal
\* a professor found by the discovery search: the Gateway gave it an id
\* the Load More button is disabled while isLoadMoreLoading, that is while the
\* request of this DiscoveryTab is in flight
isLoadMoreLoading == { r \in requests : r.kind = "loadMore" } # {}

\* DiscoveryTab.handleLoadMoreProfessors up to the await: the continuation
\* keeps the professors and groundingSources of this render
handleLoadMoreProfessors ==
    /\ StageUsable("professors") /\ selectedUniversity # None
    /\ professors # <<>>
    /\ Len(professors) < MaxLoaded
    /\ ~isLoadMoreLoading
    /\ error' = NoError
    /\ requests' = requests \cup {[kind |-> "loadMore", university |-> selectedUniversity[1],
                                   professors |-> professors,
                                   groundingSources |-> groundingSources, owner |-> session]}
    /\ NoCommit
    /\ UNCHANGED <<builds, exported, regenVars, discVars, progVars, activeView, uiVars,
                   remote, users, nextId>>
    /\ FormCommit(FALSE, editedProfile, extractReq)
    /\ DiscoverCommit(Local)

\* findMatchingProfessors answers the load more: the result is appended to
\* the lists captured by handleLoadMoreProfessors
LoadMoreProfessorsDone(r) ==
    /\ r \in requests /\ r.kind = "loadMore"
    /\ requests' = requests \ {r}
    /\ professors' = r.professors \o << [id |-> "d2", name |-> "n2", university |-> r.university] >>
    /\ groundingSources' = r.groundingSources \o <<"g2">>
    /\ NoCommit
    /\ UNCHANGED <<builds, exported, regenVars, discoveryStage, universities, selectedUniversity,
                   selectedProfessor, reachedFrom, progVars, error, activeView, uiVars,
                   remote, users, nextId>>
    /\ FormCommit(FALSE, editedProfile, extractReq)
    /\ DiscoverCommit(Local)

\* findMatchingProfessors rejects the load more
LoadMoreProfessorsFails(r) ==
    /\ r \in requests /\ r.kind = "loadMore"
    /\ requests' = requests \ {r}
    /\ error' = "gateway"
    /\ NoCommit
    /\ UNCHANGED <<builds, exported, regenVars, discVars, progVars, activeView, uiVars,
                   remote, users, nextId>>
    /\ FormCommit(FALSE, editedProfile, extractReq)
    /\ DiscoverCommit(Local)

DiscoveredProfs == { [id |-> "d1", name |-> "n1", university |-> u] : u \in ProfUnivs }

\* what the Save button of ResultDisplay passes on: the result with the
\* e-mail text and subject as they stand in the two text fields
EditedResult(result, text) ==
    [result EXCEPT !.outreachEmail = text, !.emailSubject = text]

\* savedProfessors.find(p => p.name === name && p.university === university)
FindSaved(sp, name, university) ==
    IF \E i \in DOMAIN sp : sp[i].name = name /\ sp[i].university = university
    THEN << sp[CHOOSE i \in DOMAIN sp :
                  /\ sp[i].name = name /\ sp[i].university = university
                  /\ \A j \in DOMAIN sp :
                        (sp[j].name = name /\ sp[j].university = university) => i <= j] >>
    ELSE None

\* the savedProfessors that handleSaveAnalysisToProfessor(profToSave, result) sets
SaveAnalysisToProfessor(sp, profToSave, result, owner) ==
    LET existingProf == FindSaved(sp, profToSave.name, profToSave.university)
    IN  IF existingProf # None
        THEN [ i \in DOMAIN sp |->
                 IF sp[i].id = existingProf[1].id
                 THEN [sp[i] EXCEPT !.alignmentSummary = result.alignmentSummary,
                                    !.outreachEmail = result.outreachEmail,
                                    !.emailSubject = result.emailSubject]
                 ELSE sp[i] ]
        ELSE Append(sp, SavedProfessor(profToSave.id, profToSave.name, profToSave.university,
                                       result, owner))

\* handleGenerateEmailForDiscoveredProf up to the await; the detail stage that
\* carries the button is rendered only while no discovery request is loading
handleGenerateEmailForDiscoveredProf(prof) ==
    /\ StageUsable("detail") /\ selectedProfessor = <<prof>>
    /\ isDiscoveryLoading' = TRUE
    /\ error' = NoError
    /\ requests' = requests \cup {[kind |-> "analysis", prof |-> prof, owner |-> session]}
    /\ NoCommit
    /\ UNCHANGED <<builds, exported, regenVars, discVars, progVars, activeView, isSopLoading, sopGenerationState, analysisModalState,
                   remote, users, nextId>>
    /\ FormCommit(FALSE, editedProfile, extractReq)
    /\ DiscoverCommit(Local)

\* generateAnalysisAndEmail answers: the modal opens on the result
AnalysisDone(r, result) ==
    /\ r \in requests /\ r.kind = "analysis"
    /\ requests' = requests \ {r}
    /\ isDiscoveryLoading' = FALSE
    /\ analysisModalState' = << [professor |-> r.prof, result |-> result, saved |-> FALSE] >>
    /\ NoCommit
    /\ UNCHANGED <<builds, exported, regenVars, discVars, progVars, error, activeView, isSopLoading, sopGenerationState,
                   remote, users, nextId>>
    /\ FormCommit(FALSE, editedProfile, extractReq)
    /\ DiscoverCommit(Local)

\* generateAnalysisAndEmail rejects
AnalysisFails(r) ==
    /\ r \in requests /\ r.kind = "analysis"
    /\ requests' = requests \ {r}
    /\ isDiscoveryLoading' = FALSE
    /\ error' = "gateway"
    /\ NoCommit
    /\ UNCHANGED <<builds, exported, regenVars, discVars, progVars, activeView, isSopLoading, sopGenerationState, analysisModalState,
                   remote, users, nextId>>
    /\ FormCommit(FALSE, editedProfile, extractReq)
    /\ DiscoverCommit(Local)

\* the modal's onClose
CloseAnalysisModal ==
    /\ ModalShown
    /\ analysisModalState' = None
    /\ NoCommit
    /\ UNCHANGED <<builds, exported, regenVars, discVars, progVars, error, activeView, isDiscoveryLoading, isSopLoading,
                   sopGenerationState, remote, users, requests, nextId>>
    /\ FormCommit(FALSE, editedProfile, extractReq)
    /\ DiscoverCommit(Local)

\* ResultDisplay.handleSave -> onSaveAnalysis -> handleSaveAnalysisToProfessor;
\* the button is disabled once pressed, until a new result is shown
handleSaveAnalysisToProfessor(text) ==
    /\ ModalShown
    /\ ~analysisModalState[1].saved
    /\ LET profToSave == analysisModalState[1].professor
           result == EditedResult(analysisModalState[1].result, text)
           sp == SaveAnalysisToProfessor(savedProfessors, profToSave, result, session)
           again == /\ saveRun # None
                    /\ saveRun[1].name = profToSave.name
                    /\ saveRun[1].university = profToSave.university
       IN  /\ Len(sp) <= MaxSaved
           /\ Commit([Keep([currentDataInState EXCEPT !.savedProfessors = sp], TRUE) EXCEPT
                         !.run = << [name |-> profToSave.name,
                                     university |-> profToSave.university,
                                     result |-> result,
                                     n |-> IF again THEN 2 ELSE 1] >>])
    /\ analysisModalState' = << [analysisModalState[1] EXCEPT !.saved = TRUE] >>
    /\ UNCHANGED <<builds, exported, regenVars, discVars, progVars, error, activeView, isDiscoveryLoading, isSopLoading,
                   sopGenerationState, remote, users, requests, nextId>>
    /\ FormCommit(FALSE, editedProfile, extractReq)
    /\ DiscoverCommit(Local)

\* ------------------------------------------------------- ProfileForm
\* the form proper is rendered (not the "No active profile selected" card)
FormShown == ViewUsable("profile") /\ editedProfile # None

\* prev.map(p => p.id === id ? repl : p)
MapReplace(ps, id, repl) == [ i \in DOMAIN ps |-> IF ps[i].id = id THEN repl ELSE ps[i] ]

\* profiles.filter(p => p.id !== id)
FilterOutId(ps, id) == SeqFilter(ps, { p \in Range(ps) : p.id # id })

\* an Add button that does not look at the number of profiles
handleAddProfileUnbounded ==
    /\ FormShown
    /\ nextId <= MaxIds
    /\ LET newProfile == createNewProfile(nextId, Len(profiles) + 1, session)
       IN  Commit(Keep([currentDataInState EXCEPT
                          !.profiles = Append(profiles, newProfile),
                          !.activeProfileId = newProfile.id], TRUE))
    /\ nextId' = nextId + 1
    /\ UNCHANGED <<builds, exported, regenVars, discVars, progVars, error, activeView, uiVars, remote, users, requests>>
    /\ FormCommit(TRUE, editedProfile, extractReq)
    /\ DiscoverCommit(Local)

\* handleAddProfile: a no-op at five profiles
handleAddProfile ==
    /\ FormShown
    /\ Len(profiles) < MaxProfiles
    /\ nextId <= MaxIds
    /\ LET newProfile == createNewProfile(nextId, Len(profiles) + 1, session)
       IN  Commit(Keep([currentDataInState EXCEPT
                          !.profiles = Append(profiles, newProfile),
                          !.activeProfileId = newProfile.id], TRUE))
    /\ nextId' = nextId + 1
    /\ UNCHANGED <<builds, exported, regenVars, discVars, progVars, error, activeView, uiVars, remote, users, requests>>
    /\ FormCommit(TRUE, editedProfile, extractReq)
    /\ DiscoverCommit(Local)

\* handleDeleteProfile: setProfiles(newProfiles), then newProfiles[0].id, which
\* throws when the filter left nothing, so that setActiveProfileId is not reached
handleDeleteProfile ==
    /\ FormShown
    /\ Len(profiles) > 1
    /\ LET newProfiles == FilterOutId(profiles, activeProfileId)
       IN  Commit(Keep([currentDataInState EXCEPT
                          !.profiles = newProfiles,
                          !.activeProfileId = IF newProfiles = <<>> THEN activeProfileId
                                              ELSE newProfiles[1].id], TRUE))
    /\ UNCHANGED <<builds, exported, regenVars, discVars, progVars, error, activeView, uiVars, remote, users, requests, nextId>>
    /\ FormCommit(TRUE, editedProfile, extractReq)
    /\ DiscoverCommit(Local)

\* the profile <select>: setActiveProfileId(e.target.value)
SelectProfile(id) ==
    /\ FormShown
    /\ \E i \in DOMAIN profiles : profiles[i].id = id
    /\ id # activeProfileId
    /\ Commit(Keep([currentDataInState EXCEPT !.activeProfileId = id], TRUE))
    /\ UNCHANGED <<builds, exported, regenVars, discVars, progVars, error, activeView, uiVars, remote, users, requests, nextId>>
    /\ FormCommit(TRUE, editedProfile, extractReq)
    /\ DiscoverCommit(Local)

\* handleInputChange / handleDegreeChange: the draft's required fields become
\* all non-empty (c) or not
EditDraft(c) ==
    /\ FormShown
    /\ editedProfile[1].complete # c
    /\ NoCommit
    /\ UNCHANGED <<builds, exported, regenVars, discVars, progVars, error, activeView, uiVars, remote, users, requests, nextId>>
    /\ FormCommit(FALSE, << [editedProfile[1] EXCEPT !.complete = c] >>, extractReq)
    /\ DiscoverCommit(Local)

\* handleFileChange with a PDF or DOCX file
handleFileChange ==
    /\ FormShown
    /\ ~editedProfile[1].cv
    /\ NoCommit
    /\ UNCHANGED <<builds, exported, regenVars, discVars, progVars, error, activeView, uiVars, remote, users, requests, nextId>>
    /\ FormCommit(FALSE, << [editedProfile[1] EXCEPT !.cv = TRUE] >>, extractReq)
    /\ DiscoverCommit(Local)

isExtracting == extractReq # None

\* handleExtract up to the await: the continuation keeps the editedProfile of
\* this render
handleExtract ==
    /\ FormShown
    /\ ~isExtracting
    /\ editedProfile[1].cv
    /\ NoCommit
    /\ UNCHANGED <<builds, exported, regenVars, discVars, progVars, error, activeView, uiVars, remote, users, requests, nextId>>
    /\ FormCommit(FALSE, editedProfile, editedProfile)
    /\ DiscoverCommit(Local)

\* extractProfileFromCV answers: setEditedProfile({...editedProfile, ...extractedData})
\* with the editedProfile captured by handleExtract
ExtractDone(c) ==
    /\ isExtracting
    /\ NoCommit
    /\ UNCHANGED <<builds, exported, regenVars, discVars, progVars, error, activeView, uiVars, remote, users, requests, nextId>>
    /\ FormCommit(FALSE, << [extractReq[1] EXCEPT !.complete = c] >>, None)
    /\ DiscoverCommit(Local)

\* extractProfileFromCV rejects: only the extraction error is shown
ExtractFails ==
    /\ isExtracting
    /\ NoCommit
    /\ UNCHANGED <<builds, exported, regenVars, discVars, progVars, error, activeView, uiVars, remote, users, requests, nextId>>
    /\ FormCommit(FALSE, editedProfile, None)
    /\ DiscoverCommit(Local)

\* handleSaveProfile: the draft replaces the entry whose id is activeProfileId
handleSaveProfile ==
    /\ FormShown
    /\ Commit(Keep([currentDataInState EXCEPT
                      !.profiles = MapReplace(profiles, activeProfileId, editedProfile[1])], TRUE))
    /\ UNCHANGED <<builds, exported, regenVars, discVars, progVars, error, activeView, uiVars, remote, users, requests, nextId>>
    /\ FormCommit(TRUE, editedProfile, extractReq)
    /\ DiscoverCommit(Local)

ProfileNext ==
    \/ handleAddProfile
    \/ handleDeleteProfile
    \/ \E id \in 1..MaxIds : SelectProfile(id)
    \/ \E c \in BOOLEAN : EditDraft(c)
    \/ handleFileChange
    \/ handleExtract
    \/ \E c \in BOOLEAN : ExtractDone(c)
    \/ ExtractFails
    \/ handleSaveProfile

\* ------------------------------------------------- program discovery
\* Program and university names are sequences of characters, so that the id
\* is computed from them the way the code computes it.
WhiteSpace == {" ", "\t"}

\* String.prototype.toLowerCase on the letters that occur
toLowerCase(s) ==
    [ i \in DOMAIN s |->
        CASE s[i] = "M" -> "m" [] s[i] = "S" -> "s" [] s[i] = "A" -> "a"
          [] s[i] = "I" -> "i" [] s[i] = "T" -> "t" [] s[i] = "C" -> "c"
          [] OTHER -> s[i] ]

\* s.replace(/\s+/g, '-'): every maximal run of white space becomes one hyphen
RECURSIVE ReplaceWhiteSpaceRuns(_)
ReplaceWhiteSpaceRuns(s) ==
    IF s = <<>> THEN <<>>
    ELSE IF Head(s) \in WhiteSpace
         THEN IF Len(s) > 1 /\ s[2] \in WhiteSpace
              THEN ReplaceWhiteSpaceRuns(Tail(s))
              ELSE <<"-">> \o ReplaceWhiteSpaceRuns(Tail(s))
         ELSE <<Head(s)>> \o ReplaceWhiteSpaceRuns(Tail(s))

\* UniversityAccordion.getProgramId, which decides whether a card shows as saved
getProgramId(program, universityName) ==
    toLowerCase(ReplaceWhiteSpaceRuns(program.programName \o <<"-">> \o universityName))

\* the program and university names the Gateway's answers carry
Names ==
    [MScAI |-> <<"M", "S", "c", " ", "A", "I">>,
     mscAiWide |-> <<"m", "s", "c", "\t", " ", "a", "i">>,
     AI |-> <<"A", "I">>,
     MIT |-> <<"M", "I", "T">>,
     mit |-> <<"m", "i", "t">>]

ProgramDetails(programName) == [programName |-> programName, degreeType |-> "MSc"]

UniversityWithPrograms(universityName, tier, programNames) ==
    [universityName |-> universityName, tier |-> tier,
     recommendedPrograms |-> [ i \in DOMAIN programNames |-> ProgramDetails(programNames[i]) ]]

\* ProgramDiscoveryResult values findProgramsBroadly and
\* findProgramsForSpecificUniversity may answer with
ProgramResults ==
    { [universities |-> << UniversityWithPrograms(Names.MIT, "high", <<Names.MScAI, Names.mscAiWide>>) >>],
      [universities |-> << UniversityWithPrograms(Names.mit, Undefined, <<Names.AI, Names.MScAI>>) >>],
      [universities |-> <<>>] }

\* the cards ResultsDisplay shows: the programs of the universities whose
\* tier is checked, and of those without a tier, with the university's name
ShownPrograms ==
    IF programDiscoveryResults = None THEN {}
    ELSE UNION { { <<p, u.universityName>> : p \in Range(u.recommendedPrograms) } :
                 u \in { v \in Range(programDiscoveryResults[1].universities) :
                            v.tier \in programTierFilters \/ v.tier \notin AllTiers } }

\* const hasTieredResults of ResultsDisplay
hasTieredResults ==
    /\ programDiscoveryResults # None
    /\ \E u \in Range(programDiscoveryResults[1].universities) : u.tier \in AllTiers

\* DiscoverView: a click on the tab that is not the active one
setActiveSubView(v) ==
    /\ ViewUsable("discover")
    /\ v # activeSubView
    /\ NoCommit
    /\ UNCHANGED <<builds, exported, regenVars, discVars, progVars, error, activeView, uiVars, remote, users, requests, nextId>>
    /\ FormCommit(FALSE, editedProfile, extractReq)
    /\ DiscoverCommit([Local EXCEPT !.activeSubView = v])

\* ProgramDiscoveryTab: Broad Discovery / Specific University
setSearchMode(m) ==
    /\ ViewUsable("discover") /\ ProgramDiscoveryTabMounted
    /\ m # searchMode
    /\ NoCommit
    /\ UNCHANGED <<builds, exported, regenVars, discVars, progVars, error, activeView, uiVars, remote, users, requests, nextId>>
    /\ FormCommit(FALSE, editedProfile, extractReq)
    /\ DiscoverCommit([Local EXCEPT !.searchMode = m])

\* ProgramDiscoveryTab.handleSearch -> handleFindProgramsBroadly or
\* handleFindProgramsForSpecificUniversity (by the search mode), up to the await
handleSearch ==
    /\ ViewUsable("discover") /\ ProgramDiscoveryTabMounted
    /\ ~isProgramDiscoveryLoading
    /\ isProgramDiscoveryLoading' = TRUE
    /\ error' = NoError
    /\ programDiscoveryResults' = None
    /\ requests' = requests \cup {[kind |-> IF searchMode = "broad" THEN "programsBroad"
                                            ELSE "programsSpecific",
                                   owner |-> session]}
    /\ NoCommit
    /\ UNCHANGED <<builds, exported, regenVars, discVars, isProgramDiscoveryLoadMoreLoading, activeView, uiVars,
                   remote, users, nextId>>
    /\ FormCommit(FALSE, editedProfile, extractReq)
    /\ DiscoverCommit(Local)

\* the search answers: setProgramDiscoveryResults(results), then finally
FindProgramsDone(r, results) ==
    /\ r \in requests /\ r.kind \in {"programsBroad", "programsSpecific"}
    /\ requests' = requests \ {r}
    /\ programDiscoveryResults' = <<results>>
    /\ isProgramDiscoveryLoading' = FALSE
    /\ NoCommit
    /\ UNCHANGED <<builds, exported, regenVars, discVars, isProgramDiscoveryLoadMoreLoading, error, activeView, uiVars,
                   remote, users, nextId>>
    /\ FormCommit(FALSE, editedProfile, extractReq)
    /\ DiscoverCommit(Local)

\* the search rejects: setError, then finally
FindProgramsFails(r) ==
    /\ r \in requests /\ r.kind \in {"programsBroad", "programsSpecific"}
    /\ requests' = requests \ {r}
    /\ error' = "gateway"
    /\ isProgramDiscoveryLoading' = FALSE
    /\ NoCommit
    /\ UNCHANGED <<builds, exported, regenVars, discVars, programDiscoveryResults, isProgramDiscoveryLoadMoreLoading,
                   activeView, uiVars, remote, users, nextId>>
    /\ FormCommit(FALSE, editedProfile, extractReq)
    /\ DiscoverCommit(Local)

\* ProgramDiscoveryTab.handleLoadMore -> handleLoadMoreProgramsBroadly, up to
\* the await; the button is below the results of a broad search
handleLoadMoreProgramsBroadly ==
    /\ ViewUsable("discover") /\ ResultsDisplayMounted
    /\ programDiscoveryResults[1].universities # <<>>
    /\ searchMode = "broad"
    /\ ~isProgramDiscoveryLoadMoreLoading
    /\ isProgramDiscoveryLoadMoreLoading' = TRUE
    /\ error' = NoError
    /\ requests' = requests \cup {[kind |-> "loadMorePrograms", owner |-> session]}
    /\ NoCommit
    /\ UNCHANGED <<builds, exported, regenVars, discVars, programDiscoveryResults, isProgramDiscoveryLoading,
                   activeView, uiVars, remote, users, nextId>>
    /\ FormCommit(FALSE, editedProfile, extractReq)
    /\ DiscoverCommit(Local)

\* more programs arrive: they are appended to the results of that moment
LoadMoreProgramsDone(r, newResults) ==
    LET prev == IF programDiscoveryResults = None THEN <<>>
                ELSE programDiscoveryResults[1].universities
    IN  /\ r \in requests /\ r.kind = "loadMorePrograms"
        /\ Len(prev) + Len(newResults.universities) <= MaxUniversities
        /\ requests' = requests \ {r}
        /\ programDiscoveryResults' = << [universities |-> prev \o newResults.universities] >>
        /\ isProgramDiscoveryLoadMoreLoading' = FALSE
        /\ NoCommit
        /\ UNCHANGED <<builds, exported, regenVars, discVars, isProgramDiscoveryLoading, error, activeView, uiVars,
                       remote, users, nextId>>
        /\ FormCommit(FALSE, editedProfile, extractReq)
        /\ DiscoverCommit(Local)

LoadMoreProgramsFails(r) ==
    /\ r \in requests /\ r.kind = "loadMorePrograms"
    /\ requests' = requests \ {r}
    /\ error' = "gateway"
    /\ isProgramDiscoveryLoadMoreLoading' = FALSE
    /\ NoCommit
    /\ UNCHANGED <<builds, exported, regenVars, discVars, programDiscoveryResults, isProgramDiscoveryLoading,
                   activeView, uiVars, remote, users, nextId>>
    /\ FormCommit(FALSE, editedProfile, extractReq)
    /\ DiscoverCommit(Local)

\* ResultsDisplay.handleTierFilterChange
ProgramTierFilterChange(tier) ==
    /\ ViewUsable("discover") /\ ResultsDisplayMounted /\ hasTieredResults
    /\ NoCommit
    /\ UNCHANGED <<builds, exported, regenVars, discVars, progVars, error, activeView, uiVars, remote, users, requests, nextId>>
    /\ FormCommit(FALSE, editedProfile, extractReq)
    /\ DiscoverCommit([Local EXCEPT !.programTierFilters = ToggleTier(programTierFilters, tier)])

\* ResultsDisplay.handleSelectAllTiers
ProgramSelectAllTiers ==
    /\ ViewUsable("discover") /\ ResultsDisplayMounted /\ hasTieredResults
    /\ NoCommit
    /\ UNCHANGED <<builds, exported, regenVars, discVars, progVars, error, activeView, uiVars, remote, users, requests, nextId>>
    /\ FormCommit(FALSE, editedProfile, extractReq)
    /\ DiscoverCommit([Local EXCEPT !.programTierFilters = AllTiers])

\* a savedProgramIds that never knows a saved program
savedProgramIdsEmpty(sg) == {}

\* const savedProgramIds = new Set(savedPrograms.map(p => p.id))
savedProgramIds(sg) == { sg[i].id : i \in DOMAIN sg }

SavedProgram(programId, universityName, program, owner) ==
    [id |-> programId, universityName |-> universityName,
     programName |-> program.programName, degreeType |-> program.degreeType,
     applicationStatus |-> "Not Started", owner |-> owner]

\* ProgramCard's bookmark button -> handleSaveProgram
handleSaveProgram(program, universityName) ==
    LET programId == toLowerCase(ReplaceWhiteSpaceRuns(
                         program.programName \o <<"-">> \o universityName))
        sg == IF programId \in savedProgramIds(savedPrograms)
              THEN FilterOutId(savedPrograms, programId)
              ELSE Append(savedPrograms,
                          SavedProgram(programId, universityName, program, session))
    IN  /\ ViewUsable("discover") /\ ResultsDisplayMounted
        /\ <<program, universityName>> \in ShownPrograms
        /\ Len(sg) <= MaxSavedPrograms
        /\ Commit(Keep([currentDataInState EXCEPT !.savedPrograms = sg], TRUE))
        /\ UNCHANGED <<builds, exported, regenVars, discVars, progVars, error, activeView, uiVars, remote, users,
                       requests, nextId>>
        /\ FormCommit(FALSE, editedProfile, extractReq)
        /\ DiscoverCommit(Local)

\* ProgramsView's delete button -> handleDeleteSavedProgram
handleDeleteSavedProgram(programId) ==
    /\ ViewUsable("saved")
    /\ programId \in savedProgramIds(savedPrograms)
    /\ Commit(Keep([currentDataInState EXCEPT
                      !.savedPrograms = FilterOutId(savedPrograms, programId)], TRUE))
    /\ UNCHANGED <<builds, exported, regenVars, discVars, progVars, error, activeView, uiVars, remote, users,
                   requests, nextId>>
    /\ FormCommit(FALSE, editedProfile, extractReq)
    /\ DiscoverCommit(Local)

\* ------------------------------------------------- email regeneration
\* what regenerateEmail resolves to: the two keys of its response schema
RegeneratedData == [outreachEmail |-> "r3", emailSubject |-> "r3"]

\* a spread that takes the whole analysis result from the response
SpreadWhole(base, data) ==
    [ f \in DOMAIN base \cup DOMAIN data |->
        IF f \in DOMAIN data THEN data[f]
        ELSE IF f = "alignmentSummary" THEN Undefined ELSE base[f] ]

\* { ...base, ...data }
Spread(base, data) ==
    [ f \in DOMAIN base \cup DOMAIN data |-> IF f \in DOMAIN data THEN data[f] ELSE base[f] ]

\* ResultDisplay's Regenerate button -> handleRegenerateForModal, up to the await
handleRegenerateForModal ==
    /\ ModalShown /\ ~isRegenerating
    /\ IF activeProfile = None
       THEN /\ error' = "regenerate"
            /\ UNCHANGED <<isRegenerating, requests>>
       ELSE /\ error' = NoError
            /\ isRegenerating' = TRUE
            /\ requests' = requests \cup {[kind |-> "regenerateModal", owner |-> session]}
    /\ NoCommit
    /\ UNCHANGED <<builds, exported, analyzingSavedProfId, discVars, progVars, activeView, uiVars, remote,
                   users, nextId>>
    /\ FormCommit(FALSE, editedProfile, extractReq)
    /\ DiscoverCommit(Local)

\* regenerateEmail answers: the data is spread over the modal's result of that
\* moment; ResultDisplay's effect on result clears its saved mark.  With the
\* modal closed meanwhile the state stays closed.
RegenerateForModalDone(r) ==
    /\ r \in requests /\ r.kind = "regenerateModal"
    /\ requests' = requests \ {r}
    /\ isRegenerating' = FALSE
    /\ analysisModalState' =
         IF analysisModalState = None THEN None
         ELSE << [analysisModalState[1] EXCEPT
                    !.result = Spread(analysisModalState[1].result, RegeneratedData),
                    !.saved = FALSE] >>
    /\ NoCommit
    /\ UNCHANGED <<builds, exported, analyzingSavedProfId, discVars, progVars, error, activeView,
                   isDiscoveryLoading, isSopLoading, sopGenerationState, remote, users, nextId>>
    /\ FormCommit(FALSE, editedProfile, extractReq)
    /\ DiscoverCommit(Local)

\* SavedProfessorCard's Regenerate button -> handleRegenerateForSavedProfessor,
\* up to the await
handleRegenerateForSavedProfessor(prof) ==
    /\ ViewUsable("saved")
    /\ prof \in Range(savedProfessors)
    /\ analyzingSavedProfId # <<prof.id>>
    /\ activeProfile # None
    /\ Undefined \notin {prof.alignmentSummary, prof.outreachEmail, prof.emailSubject}
    /\ analyzingSavedProfId' = <<prof.id>>
    /\ error' = NoError
    /\ requests' = requests \cup {[kind |-> "regenerateSaved", id |-> prof.id, owner |-> session]}
    /\ NoCommit
    /\ UNCHANGED <<builds, exported, isRegenerating, discVars, progVars, activeView, uiVars, remote, users,
                   nextId>>
    /\ FormCommit(FALSE, editedProfile, extractReq)
    /\ DiscoverCommit(Local)

\* regenerateEmail answers: the data is spread over every saved professor
\* with the id
RegenerateForSavedDone(r) ==
    /\ r \in requests /\ r.kind = "regenerateSaved"
    /\ requests' = requests \ {r}
    /\ analyzingSavedProfId' = None
    /\ Commit(Keep([currentDataInState EXCEPT !.savedProfessors =
                      [ i \in DOMAIN savedProfessors |->
                          IF savedProfessors[i].id = r.id
                          THEN Spread(savedProfessors[i], RegeneratedData)
                          ELSE savedProfessors[i] ]], TRUE))
    /\ UNCHANGED <<builds, exported, isRegenerating, discVars, progVars, error, activeView, uiVars,
                   remote, users, nextId>>
    /\ FormCommit(FALSE, editedProfile, extractReq)
    /\ DiscoverCommit(Local)

\* regenerateEmail rejects
RegenerateFails(r) ==
    /\ r \in requests /\ r.kind \in {"regenerateModal", "regenerateSaved"}
    /\ requests' = requests \ {r}
    /\ error' = "gateway"
    /\ IF r.kind = "regenerateModal"
       THEN isRegenerating' = FALSE /\ UNCHANGED analyzingSavedProfId
       ELSE analyzingSavedProfId' = None /\ UNCHANGED isRegenerating
    /\ NoCommit
    /\ UNCHANGED <<builds, exported, discVars, progVars, activeView, uiVars, remote, users, nextId>>
    /\ FormCommit(FALSE, editedProfile, extractReq)
    /\ DiscoverCommit(Local)

\* ------------------------------------------------------ SOP generation
\* the Gateway requests of a kind that are in flight
InFlight(kinds) == { r \in requests : r.kind \in kinds }

\* the Generate SOP button of DiscoveryTab's detail stage or of a saved
\* professor's card (disabled while that card is analysing) -> handleOpenSopModal
handleOpenSopModal(professor) ==
    /\ \/ StageUsable("detail") /\ selectedProfessor = <<professor>>
       \/ /\ ViewUsable("saved")
          /\ professor \in Range(savedProfessors)
          /\ analyzingSavedProfId # <<professor.id>>
    /\ sopGenerationState' = << [professor |-> professor, university |-> professor.university] >>
    /\ NoCommit
    /\ UNCHANGED <<builds, exported, regenVars, discVars, progVars, error, activeView, isDiscoveryLoading,
                   isSopLoading, analysisModalState, remote, users, requests, nextId>>
    /\ FormCommit(FALSE, editedProfile, extractReq)
    /\ DiscoverCommit(Local)

\* the modal's Cancel button or backdrop -> handleCloseSopModal
handleCloseSopModal ==
    /\ SopModalShown /\ ~ModalShown
    /\ sopGenerationState' = None
    /\ NoCommit
    /\ UNCHANGED <<builds, exported, regenVars, discVars, progVars, error, activeView, isDiscoveryLoading,
                   isSopLoading, analysisModalState, remote, users, requests, nextId>>
    /\ FormCommit(FALSE, editedProfile, extractReq)
    /\ DiscoverCommit(Local)

\* SopGenerationModal.handleSubmit -> handleGenerateSopFromModal, up to the
\* await; seq tells the requests in flight apart
handleGenerateSopFromModal ==
    /\ SopModalShown /\ ~ModalShown
    /\ Cardinality(InFlight({"sop"})) < MaxSopRequests
    /\ IF activeProfile = None
       THEN UNCHANGED <<sopGenerationState, isSopLoading, error, activeView, requests>>
       ELSE /\ sopGenerationState' = None
            /\ isSopLoading' = TRUE
            /\ error' = NoError
            /\ activeView' = "generate"
            /\ requests' = requests \cup
                 {[kind |-> "sop",
                   seq |-> CHOOSE n \in 1..MaxSopRequests :
                              \A q \in InFlight({"sop"}) : q.seq # n,
                   university |-> sopGenerationState[1].university,
                   profileId |-> activeProfile[1].id, owner |-> session]}
    /\ NoCommit
    /\ UNCHANGED <<builds, exported, regenVars, discVars, progVars, isDiscoveryLoading, analysisModalState,
                   remote, users, nextId>>
    /\ FormCommit(FALSE, editedProfile, extractReq)
    /\ DiscoverCommit(Local)

\* generateSop answers: the new SOP is appended, then finally
GenerateSopDone(r) ==
    /\ r \in requests /\ r.kind = "sop"
    /\ Len(sops) < MaxSaved
    /\ nextId <= MaxIds
    /\ requests' = requests \ {r}
    /\ isSopLoading' = FALSE
    /\ nextId' = nextId + 1
    /\ Commit(Keep([currentDataInState EXCEPT !.sops =
                      Append(sops, [id |-> nextId, profileId |-> r.profileId,
                                    university |-> r.university, owner |-> r.owner])], TRUE))
    /\ UNCHANGED <<builds, exported, regenVars, discVars, progVars, error, activeView, isDiscoveryLoading,
                   sopGenerationState, analysisModalState, remote, users>>
    /\ FormCommit(FALSE, editedProfile, extractReq)
    /\ DiscoverCommit(Local)

\* generateSop rejects: setError, then finally
GenerateSopFails(r) ==
    /\ r \in requests /\ r.kind = "sop"
    /\ requests' = requests \ {r}
    /\ isSopLoading' = FALSE
    /\ error' = "gateway"
    /\ NoCommit
    /\ UNCHANGED <<builds, exported, regenVars, discVars, progVars, activeView, isDiscoveryLoading,
                   sopGenerationState, analysisModalState, remote, users, nextId>>
    /\ FormCommit(FALSE, editedProfile, extractReq)
    /\ DiscoverCommit(Local)

\* --------------------------------------------------- professors CSV export
\* Text is a sequence of one-character strings.
\* the saved professor records the store may hold when the page loads, in
\* stored order
ExportProfs ==
    LET ExportProf(id, name, university, emailSent, outcome, feedback) ==
    [id |-> id, name |-> name, university |-> university, department |-> <<"c","s">>,
     researchSummary |-> <<>>, emailSent |-> emailSent, outcome |-> outcome,
     email |-> <<>>, universityProfileLink |-> None, labWebsite |-> <<>>,
     googleScholarLink |-> None, feedback |-> feedback, owner |-> "a"]
    IN
    << ExportProf("p1", <<"b","o","b">>, <<"c","m","u">>, FALSE, <<"p","e","n","d","i","n","g">>, <<>>),
      ExportProf("p2", <<"a","m","y">>, <<"m","i","t">>, TRUE, <<"p","o","s","i","t","i","v","e">>,
                 <<"o","k"," ","\"","y","e","s","\"">>),
      ExportProf("p3", <<"c","y">>, <<"c","m","u">>, TRUE, <<"n","e","g","a","t","i","v","e">>,
                 <<"n","o"," ","#","2">>) >>
ExportDocs ==
    { UserData(<<InitProfile>>, 1, SeqFilter(ExportProfs, keep), <<>>, <<>>) :
        keep \in SUBSET { ExportProfs[i] : i \in DOMAIN ExportProfs } }

\* String.prototype.includes
Includes(s, term) ==
    \E i \in 1..(Len(s) - Len(term) + 1) : SubSeq(s, i, i + Len(term) - 1) = term

\* String.prototype.localeCompare on words of lower-case letters
RECURSIVE localeCompare(_, _)
localeCompare(a, b) ==
    LET Letters == <<"a","b","c","d","e","f","g","h","i","j","k","l","m","n","o","p","q","r", "s","t","u","v","w","x","y","z">>
        Pos(c) == CHOOSE i \in 1..Len(Letters) : Letters[i] = c IN
    CASE a = <<>> /\ b = <<>> -> 0
      [] a = <<>> /\ b # <<>> -> -1
      [] a # <<>> /\ b = <<>> -> 1
      [] OTHER -> IF Head(a) = Head(b) THEN localeCompare(Tail(a), Tail(b))
                  ELSE IF Pos(Head(a)) < Pos(Head(b)) THEN -1 ELSE 1

\* the filter predicate of displayedProfessors
MatchesFilters(p, f) ==
    LET term == toLowerCase(f.searchTerm)
        matchesTerm == \/ Includes(toLowerCase(p.name), term)
                       \/ Includes(toLowerCase(p.university), term)
                       \/ Includes(toLowerCase(p.department), term)
                       \/ Includes(toLowerCase(p.researchSummary), term)
        matchesEmail == \/ f.emailStatusFilter = "all"
                        \/ f.emailStatusFilter = "sent" /\ p.emailSent
                        \/ f.emailStatusFilter = "pending" /\ ~p.emailSent
    IN  matchesTerm /\ matchesEmail

\* the comparator of displayedProfessors
CompareProfessors(a, b, sortOrder) ==
    CASE sortOrder = "name-desc" -> localeCompare(b.name, a.name)
      [] sortOrder = "uni-asc" -> localeCompare(a.university, b.university)
      [] sortOrder = "uni-desc" -> localeCompare(b.university, a.university)
      [] OTHER -> localeCompare(a.name, b.name)

\* Array.prototype.sort, which is stable
RECURSIVE SortProfessors(_, _)
SortProfessors(s, sortOrder) ==
    IF s = <<>> THEN <<>>
    ELSE LET rest == SortProfessors(SubSeq(s, 1, Len(s) - 1), sortOrder)
             x == s[Len(s)]
             k == Cardinality({ i \in DOMAIN rest : CompareProfessors(rest[i], x, sortOrder) <= 0 })
         IN  SubSeq(rest, 1, k) \o <<x>> \o SubSeq(rest, k + 1, Len(rest))

displayedProfessors(sp, f) ==
    SortProfessors(SelectSeq(sp, LAMBDA p : MatchesFilters(p, f)), f.sortOrder)

\* Array.prototype.join
RECURSIVE join(_, _)
join(parts, sep) ==
    IF parts = <<>> THEN <<>>
    ELSE IF Len(parts) = 1 THEN parts[1]
    ELSE LET h == Len(parts) \div 2 IN
         join(SubSeq(parts, 1, h), sep) \o sep \o join(SubSeq(parts, h + 1, Len(parts)), sep)

CsvHeaders ==
    <<"N","a","m","e",",","U","n","i","v","e","r","s","i","t","y",",","D","e",
      "p","a","r","t","m","e","n","t",",","E","m","a","i","l"," ","S","e",
      "n","t",",","O","u","t","c","o","m","e",",","E","m","a","i","l",",",
      "P","r","o","f","i","l","e"," ","U","R","L",",","L","a","b"," ","U",
      "R","L",",","S","c","h","o","l","a","r"," ","U","R","L",",","N","o",
      "t","e","s">>
\* one row: val || '' and then join's String(val) make the cell of a boolean
\* true or empty, of an absent optional string empty, and of a string the
\* string; feedback.replace(/"/g, '""') doubles the quotes of the Notes cell
CsvRow(p) ==
    LET BoolOrEmpty(b) == IF b THEN <<"t","r","u","e">> ELSE <<>>
        OptOrEmpty(o) == IF o = None THEN <<>> ELSE o[1]
        DoubleQuotes(t) == join([ i \in DOMAIN t |-> IF t[i] = "\"" THEN <<"\"", "\"">> ELSE <<t[i]>> ], <<>>)
    IN  join(<< p.name, p.university, p.department, BoolOrEmpty(p.emailSent), p.outcome,
                p.email, OptOrEmpty(p.universityProfileLink), p.labWebsite,
                OptOrEmpty(p.googleScholarLink),
                <<"\"">> \o DoubleQuotes(p.feedback) \o <<"\"">> >>, <<",">>)
csvContent(displayed) ==
    LET DataPrefix == <<"d","a","t","a",":","t","e","x","t","/","c","s","v",";","c","h","a","r", "s","e","t","=","u","t","f","-","8",",">>
    IN  DataPrefix \o join(<<CsvHeaders>> \o [ i \in DOMAIN displayed |-> CsvRow(displayed[i]) ], <<"\n">>)

\* encodeURI: the characters outside its unescaped set become %XX; the
\* set holds letters, digits and ; , / ? : @ & = + $ - _ . ! ~ * ' ( ) #
encodeURI(s) ==
    join([ i \in DOMAIN s |->
            CASE s[i] = " " -> <<"%","2","0">>
              [] s[i] = "\"" -> <<"%","2","2">>
              [] s[i] = "\n" -> <<"%","0","A">>
              [] s[i] = "%" -> <<"%","2","5">>
              [] OTHER -> <<s[i]>> ], <<>>)

\* the file the browser saves for the link's data: URL: the URL's fragment,
\* from the first # on, is not part of the resource; the body is what follows
\* the first comma, percent-decoded (every % of what encodeURI wrote starts
\* an escape)
DownloadedFile(href) ==
    LET PercentDecode(s) ==
        join([ i \in DOMAIN s |->
                IF s[i] = "%" /\ i + 2 <= Len(s)
                THEN LET code == <<s[i + 1], s[i + 2]>> IN
                     CASE code = <<"2","0">> -> <<" ">>
                       [] code = <<"2","2">> -> <<"\"">>
                       [] code = <<"0","A">> -> <<"\n">>
                       [] code = <<"2","5">> -> <<"%">>
                       [] OTHER -> <<"?">>
                ELSE IF (i > 1 /\ s[i - 1] = "%") \/ (i > 2 /\ s[i - 2] = "%") THEN <<>>
                ELSE <<s[i]>> ], <<>>)
        Before(t, c) == LET hits == { i \in DOMAIN t : t[i] = c } IN
                        IF hits = {} THEN t
                        ELSE SubSeq(t, 1, (CHOOSE i \in hits : \A j \in hits : i <= j) - 1)
        noFragment == Before(href, "#")
        mediaType == Before(noFragment, ",")
    IN  PercentDecode(SubSeq(noFragment, Len(mediaType) + 2, Len(noFragment)))

\* the Export to CSV button of ProfessorsView
exportToCSV ==
    /\ ViewUsable("saved")
    /\ LET displayed == displayedProfessors(savedProfessors, professorFilters) IN
       exported' = << [ file |-> DownloadedFile(encodeURI(csvContent(displayed))),
                        displayed |-> displayed, filters |-> professorFilters,
                        saved |-> savedProfessors ] >>
    /\ NoCommit
    /\ UNCHANGED <<builds, regenVars, discVars, progVars, error, activeView, uiVars,
                   remote, users, requests, nextId>>
    /\ FormCommit(FALSE, editedProfile, extractReq)
    /\ DiscoverCommit(Local)

\* the search box and the two selects of ProfessorsView
setProfessorFilter(field, value) ==
    /\ ViewUsable("saved")
    /\ value # professorFilters[field]
    /\ NoCommit
    /\ UNCHANGED <<builds, exported, regenVars, discVars, progVars, error, activeView, uiVars,
                   remote, users, requests, nextId>>
    /\ FormCommit(FALSE, editedProfile, extractReq)
    /\ DiscoverCommit([Local EXCEPT !.professorFilters = [professorFilters EXCEPT ![field] = value]])

\* ------------------------------------------------------------------ Next
\* the views the session specification navigates between
NavViews == {"profile", "generate"}
R1 == [alignmentSummary |-> "r1", outreachEmail |-> "r1", emailSubject |-> "r1"]

SignOutInNext ==
    \/ \E s \in users \cup {NoSession} : GetSessionResolve(s)
    \/ \E acct \in Accounts : handleLogin(acct)
    \/ \E acct \in Accounts : handleSignUp(acct)
    \/ handleLogout
    \/ \E f \in BOOLEAN : LoadComplete(f)
    \/ \E acct \in Accounts, f \in BOOLEAN : StaleLoadComplete(acct, f)
    \/ \E p \in puts : PutArrives(p)
    \/ \E v \in NavViews : setActiveView(v)
    \/ handleManualGenerateAndSaveEmail("n1", "u1")
    \/ \E r \in requests : ManualEmailDone(r, R1)
    \/ \E r \in requests : ManualEmailFails(r)

Next ==
    \/ SignOutInNext
    \/ \E s \in users \cup {NoSession} : AuthStateChange(s)

\* the current App (src/App.tsx lines 1-519) with either data service
Init == InitBuild("fix")
Spec == Init /\ [][Next]_vars

\* the same App when the session changes only by the page's own sign-in,
\* sign-up and sign-out
SpecSignOutIn == Init /\ [][SignOutInNext]_vars

\* the profile manager of the current App within sign-in, reload and sign-out
NextProfile ==
    \/ \E s \in users \cup {NoSession} : GetSessionResolve(s)
    \/ \E acct \in Accounts : handleLogin(acct)
    \/ handleLogout
    \/ LoadComplete(FALSE)
    \/ \E p \in puts : PutArrives(p)
    \/ setActiveView("profile")
    \/ ProfileNext
InitProfileManager == Init /\ svcBuild = "throwing"
SpecProfile == InitProfileManager /\ [][NextProfile]_vars

\* the earlier App (src/App.tsx lines 520-1075) with either data service:
\* sign-up, sign-in, sign-out, reload, and the Saved view while the load runs
NextEarlier ==
    \/ \E s \in users \cup {NoSession} : GetSessionResolve(s)
    \/ \E acct \in Accounts : handleLogin(acct)
    \/ \E acct \in Accounts : handleSignUp(acct)
    \/ handleLogout
    \/ \E f \in BOOLEAN : LoadComplete(f)
    \/ \E acct \in Accounts, f \in BOOLEAN : StaleLoadComplete(acct, f)
    \/ \E p \in puts : PutArrives(p)
    \/ setActiveView("saved")
    \/ handleAddSavedProfessor("n1", "u1")
InitEarlier == InitBuild("bootstrap")
SpecEarlier == InitEarlier /\ [][NextEarlier]_vars

\* saving professors in one session of the current App: manual entry in the
\* Generate view, and in the Discover view a direct professor search, the
\* detail stage and the analysis modal
NextProfessors ==
    \/ GetSessionResolve("a")
    \/ LoadComplete(FALSE)
    \/ \E p \in puts : PutArrives(p)
    \/ \E v \in {"generate", "discover"} : setActiveView(v)
    \/ \E u \in ProfUnivs : handleManualGenerateAndSaveEmail("n1", u)
    \/ \E r \in requests : ManualEmailDone(r, R1)
    \/ \E r \in requests : ManualEmailFails(r)
    \/ \E u \in ProfUnivs : handleFindProfessors(u)
    \/ \E r \in requests : FindProfessorsDone(r, TRUE)
    \/ \E prof \in DiscoveredProfs : handleSelectProfessor(prof)
    \/ \E prof \in DiscoveredProfs : handleGenerateEmailForDiscoveredProf(prof)
    \/ \E r \in requests, result \in AnalysisResults : AnalysisDone(r, result)
    \/ \E r \in requests : AnalysisFails(r)
    \/ CloseAnalysisModal
    \/ \E text \in EmailTexts : handleSaveAnalysisToProfessor(text)
SpecProfessors == InitProfileManager /\ [][NextProfessors]_vars

\* Program discovery: an established account searches for programs, loads
\* more, filters the results by tier, and saves, unsaves and deletes programs.
NextPrograms ==
    \/ GetSessionResolve("a")
    \/ LoadComplete(FALSE)
    \/ \E p \in puts : PutArrives(p)
    \/ \E v \in {"discover", "saved"} : setActiveView(v)
    \/ \E v \in {"professors", "programs"} : setActiveSubView(v)
    \/ \E m \in {"broad", "specific"} : setSearchMode(m)
    \/ handleSearch
    \/ \E r \in requests, res \in ProgramResults : FindProgramsDone(r, res)
    \/ \E r \in requests : FindProgramsFails(r)
    \/ handleLoadMoreProgramsBroadly
    \/ \E r \in requests, res \in ProgramResults : LoadMoreProgramsDone(r, res)
    \/ \E r \in requests : LoadMoreProgramsFails(r)
    \/ \E t \in AllTiers : ProgramTierFilterChange(t)
    \/ ProgramSelectAllTiers
    \/ \E c \in ShownPrograms : handleSaveProgram(c[1], c[2])
    \/ \E id \in savedProgramIds(savedPrograms) : handleDeleteSavedProgram(id)
SpecPrograms == InitProfileManager /\ [][NextPrograms]_vars

\* The Discover view in one session: the staged professor search with its
\* back navigation and tier filters, and a program search with its tier filters.
NextDiscovery ==
    \/ GetSessionResolve("a")
    \/ LoadComplete(FALSE)
    \/ \E p \in puts : PutArrives(p)
    \/ \E v \in {"discover", "home"} : setActiveView(v)
    \/ \E v \in {"professors", "programs"} : setActiveSubView(v)
    \/ handleFindUniversities
    \/ \E r \in requests : FindUniversitiesDone(r)
    \/ \E u \in ProfUnivs : handleFindProfessors(u)
    \/ \E r \in requests, found \in BOOLEAN : FindProfessorsDone(r, found)
    \/ \E r \in requests : FindFails(r)
    \/ \E prof \in DiscoveredProfs : handleSelectProfessor(prof)
    \/ handleBack
    \/ handleLoadMoreProfessors
    \/ \E r \in requests : LoadMoreProfessorsDone(r)
    \/ \E r \in requests : LoadMoreProfessorsFails(r)
    \/ \E t \in AllTiers : handleTierFilterChange(t)
    \/ handleSelectAllTiers
    \/ handleSearch
    \/ \E r \in requests, res \in ProgramResults : FindProgramsDone(r, res)
    \/ \E t \in AllTiers : ProgramTierFilterChange(t)
    \/ ProgramSelectAllTiers
SpecDiscovery == InitProfileManager /\ [][NextDiscovery]_vars

\* Regenerating the email of the analysis modal and of a saved professor: one
\* session in which a discovered professor is analysed, saved and regenerated
NextRegenerate ==
    \/ GetSessionResolve("a")
    \/ LoadComplete(FALSE)
    \/ \E p \in puts : PutArrives(p)
    \/ \E v \in {"discover", "saved"} : setActiveView(v)
    \/ handleFindProfessors("u1")
    \/ \E r \in requests : FindProfessorsDone(r, TRUE)
    \/ \E prof \in DiscoveredProfs : handleSelectProfessor(prof)
    \/ \E prof \in DiscoveredProfs : handleGenerateEmailForDiscoveredProf(prof)
    \/ \E r \in requests, result \in AnalysisResults : AnalysisDone(r, result)
    \/ CloseAnalysisModal
    \/ handleSaveAnalysisToProfessor("edited")
    \/ handleRegenerateForModal
    \/ \E r \in requests : RegenerateForModalDone(r)
    \/ \E prof \in Range(savedProfessors) : handleRegenerateForSavedProfessor(prof)
    \/ \E r \in requests : RegenerateForSavedDone(r)
    \/ \E r \in requests : RegenerateFails(r)
SpecRegenerate == InitProfileManager /\ [][NextRegenerate]_vars

\* The loading flags: one session that searches professors and programs,
\* loads more programs and generates SOPs for the professor of the detail stage
NextLoading ==
    \/ GetSessionResolve("a")
    \/ LoadComplete(FALSE)
    \/ \E p \in puts : PutArrives(p)
    \/ \E v \in {"discover", "generate"} : setActiveView(v)
    \/ \E v \in {"professors", "programs"} : setActiveSubView(v)
    \/ handleFindProfessors("u1")
    \/ \E r \in requests : FindProfessorsDone(r, TRUE)
    \/ \E prof \in DiscoveredProfs : handleSelectProfessor(prof)
    \/ \E prof \in DiscoveredProfs : handleOpenSopModal(prof)
    \/ handleCloseSopModal
    \/ handleGenerateSopFromModal
    \/ \E r \in requests : GenerateSopDone(r)
    \/ \E r \in requests : GenerateSopFails(r)
    \/ handleSearch
    \/ \E r \in requests : FindProgramsDone(r, CHOOSE res \in ProgramResults : res.universities # <<>>)
    \/ handleLoadMoreProgramsBroadly
    \/ \E r \in requests : LoadMoreProgramsDone(r, CHOOSE res \in ProgramResults : res.universities # <<>>)
SpecLoading == InitProfileManager /\ [][NextLoading]_vars

\* The CSV export: the store holds some of the ExportProfs; the
\* user opens the Saved tab, sets the filters and exports
NextExport ==
    \/ GetSessionResolve("a")
    \/ LoadComplete(FALSE)
    \/ \E p \in puts : PutArrives(p)
    \/ setActiveView("saved")
    \/ \E t \in { <<>>, <<"M","I","T">> } : setProfessorFilter("searchTerm", t)
    \/ \E e \in {"all", "sent", "pending"} : setProfessorFilter("emailStatusFilter", e)
    \/ \E o \in {"name-asc", "name-desc", "uni-asc", "uni-desc"} : setProfessorFilter("sortOrder", o)
    \/ exportToCSV
InitExport == InitStore("fix", ExportDocs) /\ svcBuild = "throwing" /\ putCap = MaxPuts
SpecExport == InitExport /\ [][NextExport]_vars

\* Profiles and SOPs in one session of the current App: the account holds
\* four profiles, the first of them complete; the user adds, selects and
\* deletes profiles, adds a professor in the Saved tab and generates SOPs
\* from the professor's card
NextGate ==
    \/ GetSessionResolve("a")
    \/ LoadComplete(FALSE)
    \/ \E p \in puts : PutArrives(p)
    \/ \E v \in {"profile", "saved", "discover"} : setActiveView(v)
    \/ handleAddProfile
    \/ handleDeleteProfile
    \/ \E id \in {1, MaxIds + 1} : SelectProfile(id)
    \/ handleAddSavedProfessor("n1", "u1")
    \/ \E prof \in Range(savedProfessors) : handleOpenSopModal(prof)
    \/ handleCloseSopModal
    \/ handleGenerateSopFromModal
    \/ \E r \in requests : GenerateSopDone(r)
    \/ \E r \in requests : GenerateSopFails(r)
InitGate ==
    /\ InitStore("fix", { UserData(<< InitProfile,
                                      createNewProfile(MaxIds + 1, 2, "a"),
                                      createNewProfile(MaxIds + 2, 3, "a"),
                                      createNewProfile(MaxIds + 3, 4, "a") >>, 1, <<>>, <<>>, <<>>) })
    /\ svcBuild = "throwing"
    /\ putCap = MaxPuts
SpecGate == InitGate /\ [][NextGate]_vars

\* Writes in flight together: one session of the current App adds
\* professors in the Saved tab while earlier writes are still under way, and
\* a write may fail
NextWrites ==
    \/ GetSessionResolve("a")
    \/ LoadComplete(FALSE)
    \/ \E p \in puts : PutArrives(p)
    \/ \E p \in puts : PutFails(p)
    \/ setActiveView("saved")
    \/ \E u \in ProfUnivs : handleAddSavedProfessor("n1", u)
InitWrites == InitStore("fix", InitDocs) /\ svcBuild = "throwing" /\ putCap = MaxRacingPuts
SpecWrites == InitWrites /\ [][NextWrites]_vars

\* ------------------------------------------------------------ claims
\* activeProfileId is null or the id of an entry of profiles
ActiveOk(d) ==
    \/ d.activeProfileId = Null
    \/ \E i \in DOMAIN d.profiles : d.profiles[i].id = d.activeProfileId

\* the account of every record of a document
Owners(d) ==
    { d.profiles[i].owner : i \in DOMAIN d.profiles }
        \cup { d.savedProfessors[i].owner : i \in DOMAIN d.savedProfessors }

\* C1: every saveUserData call is issued in a session whose getUserData for the
\* call's account has completed: no request in flight was issued before that.
C1_NoSaveBeforeLoad ==
    \A p \in puts : p.loaded

\* C2: once the signed-in account's load has completed, every profile and
\* saved professor in memory was loaded or created under that account, also
\* when Gateway calls started under the previous account complete after the
\* sign-out and sign-in.
C2_SessionIsolation ==
    (session # NoSession /\ loadedFor = session) =>
        Owners(currentDataInState) \subseteq {session}

\* C3: no saveUserData call keyed by an account's email carries a document
\* that contains a record of another account, also when the session changes
\* directly from one account to another.
C3_NoForeignRecordsSaved ==
    \A p \in puts : Owners(p.data) \subseteq {p.email}

\* C4: saveUserData is never called while no user is signed in: every request
\* was issued with a session, and is keyed by that session's email.
C4_NoSaveWhileSignedOut ==
    \A p \in puts : p.session # NoSession /\ p.email = p.session

\* C4 witness: a Gateway response arrived after sign-out and put its record
\* into the local state of the signed-out page.
C4_Witness ==
    /\ session = NoSession
    /\ ~isInitialLoad
    /\ savedProfessors # <<>>

\* C5: when the first load of the newly signed-up account finds no document,
\* the local state is one profile named 'Default Profile' that is the active
\* one, a saveUserData call for the account is in flight, and every call in
\* flight for the account carries exactly that document.
C5_DefaultProfileBootstrap ==
    (lastLoad # NoLoad /\ lastLoad[1].email = "b" /\ lastLoad[1].outcome = "absent") =>
        /\ Len(profiles) = 1
        /\ profiles[1].profileName = DefaultProfileName
        /\ activeProfileId = profiles[1].id
        /\ savedProfessors = <<>> /\ savedPrograms = <<>> /\ sops = <<>>
        /\ \E p \in puts : p.email = "b"
        /\ \A p \in puts : p.email = "b" => p.data = currentDataInState

\* the activeProfileId a load is to end with: the stored id if it is the id of
\* a loaded profile, else the id of the first loaded profile, else null
RepairedId(doc) ==
    IF \E i \in DOMAIN doc.profiles : doc.profiles[i].id = doc.activeProfileId
    THEN doc.activeProfileId
    ELSE IF doc.profiles # <<>> THEN Head(doc.profiles).id ELSE Null

\* C6: right after a load that found a document, the local state equals the
\* document except for activeProfileId, which is the repaired id.
C6_LoadRepairsActiveProfile ==
    (lastLoad # NoLoad /\ lastLoad[1].outcome = "found") =>
        LET doc == lastLoad[1].doc[1]
        IN  /\ profiles = doc.profiles
            /\ savedProfessors = doc.savedProfessors
            /\ savedPrograms = doc.savedPrograms
            /\ sops = doc.sops
            /\ activeProfileId = RepairedId(doc)

\* C6 witness: a load found a document whose activeProfileId is the id of none
\* of its profiles, and the first profile became the active one.
C6_Witness ==
    /\ lastLoad # NoLoad
    /\ lastLoad[1].outcome = "found"
    /\ lastLoad[1].doc[1].profiles # <<>>
    /\ \A i \in DOMAIN lastLoad[1].doc[1].profiles :
          lastLoad[1].doc[1].profiles[i].id # lastLoad[1].doc[1].activeProfileId
    /\ activeProfileId = lastLoad[1].doc[1].profiles[1].id

\* C7: right after a load whose fetch failed, the blocking error is set and
\* the shell with its collections is not rendered; and no saveUserData call is
\* made by the commit that applies a failed fetch.
C7_FailedFetchIsFatal ==
    /\ (lastLoad # NoLoad /\ lastLoad[1].outcome = "error") =>
            (error = "load" /\ ~ShellRendered)
    /\ \A p \in puts : p.load # "error"

\* C8: the established account, whose document holds a profile from the start,
\* keeps at least one profile: in the store, in every document handed to
\* saveUserData and in memory once its document is loaded.
C8_ProfileFloor ==
    /\ remote["a"] # NoDoc => Len(remote["a"][1].profiles) >= 1
    /\ \A p \in puts : p.email = "a" => Len(p.data.profiles) >= 1
    /\ (session = "a" /\ loadedFor = "a") => Len(profiles) >= 1

\* C9: in every state of a signed-in session and in every document handed to
\* saveUserData, activeProfileId is null or the id of an entry of profiles.
C9_ActiveProfileReferencesProfile ==
    /\ session # NoSession => ActiveOk(currentDataInState)
    /\ \A p \in puts : ActiveOk(p.data)

\* the entries of savedProfessors with the given name and university
SavedWith(name, university) ==
    { i \in DOMAIN savedProfessors :
        savedProfessors[i].name = name /\ savedProfessors[i].university = university }

\* C10: after handleSaveAnalysisToProfessor has run twice in a row for the same
\* (name, university), savedProfessors holds exactly one record with that name
\* and university, and its alignmentSummary, outreachEmail and emailSubject
\* are those of the second save.
C10_SaveAnalysisTwice ==
    (saveRun # None /\ saveRun[1].n = 2) =>
        LET same == SavedWith(saveRun[1].name, saveRun[1].university)
        IN  /\ Cardinality(same) = 1
            /\ \A i \in same :
                  /\ savedProfessors[i].alignmentSummary = saveRun[1].result.alignmentSummary
                  /\ savedProfessors[i].outreachEmail = saveRun[1].result.outreachEmail
                  /\ savedProfessors[i].emailSubject = saveRun[1].result.emailSubject

\* C11: savedProfessors never holds two records with the same name and
\* university, whatever sequence of professor-saving operations ran.
C11_NoDuplicateSavedProfessor ==
    \A i, j \in DOMAIN savedProfessors :
        (savedProfessors[i].name = savedProfessors[j].name
            /\ savedProfessors[i].university = savedProfessors[j].university) => i = j

\* the entries of a saved-programs list that carry the id
WithId(sg, id) == { i \in DOMAIN sg : sg[i].id = id }

\* C12: handleSaveProgram computes for a program name and a university name
\* the lower-cased "programName-universityName" with every run of white space
\* replaced by one hyphen ("MSc AI" at "MIT" gives "msc-ai-mit"), the id the
\* card's saved mark is computed from; applied to a program whose id is not
\* saved it adds exactly one entry with that id, applied to one whose id is
\* saved it removes it, and the other entries stay; savedPrograms never holds
\* two entries with the same id.
C12_SaveProgramToggles ==
    /\ [](getProgramId(ProgramDetails(Names.MScAI), Names.MIT)
            = <<"m", "s", "c", "-", "a", "i", "-", "m", "i", "t">>)
    /\ [](\A i, j \in DOMAIN savedPrograms :
            /\ savedPrograms[i].id = savedPrograms[j].id => i = j
            /\ savedPrograms[i].id = getProgramId(savedPrograms[i], savedPrograms[i].universityName))
    /\ [][\A c \in ShownPrograms :
            handleSaveProgram(c[1], c[2]) =>
                LET id == getProgramId(c[1], c[2])
                    before == Cardinality(WithId(savedPrograms, id))
                IN  /\ Cardinality(WithId(savedPrograms', id)) = IF before = 0 THEN 1 ELSE 0
                    /\ \A o \in savedProgramIds(savedPrograms) \cup savedProgramIds(savedPrograms') :
                           o # id => Cardinality(WithId(savedPrograms', o))
                                        = Cardinality(WithId(savedPrograms, o))]_vars

\* a program the store holds as saved has been unsaved from its card, and a
\* program whose name differs in case and spacing only is saved
C12_Witness ==
    /\ session # NoSession /\ ViewUsable("discover") /\ ResultsDisplayMounted
    /\ remote[session] # NoDoc
    /\ \E i \in DOMAIN remote[session][1].savedPrograms :
           remote[session][1].savedPrograms[i].id \notin savedProgramIds(savedPrograms)
    /\ \E i \in DOMAIN savedPrograms : savedPrograms[i].programName = Names.mscAiWide

\* C13: the checked tier filters of the university list and of the program
\* results start with high, medium and low all checked, whenever their
\* component is mounted; they are never empty, under any sequence of tier
\* toggles and 'All Tiers' clicks; and a toggle of the only checked tier
\* leaves the checked set as it is.
C13_TierFilterFloor ==
    /\ tierFilters = AllTiers /\ programTierFilters = AllTiers
    /\ [](/\ tierFilters # {} /\ tierFilters \subseteq AllTiers
          /\ programTierFilters # {} /\ programTierFilters \subseteq AllTiers)
    /\ [][/\ ~DiscoveryTabMounted /\ DiscoveryTabMounted' => tierFilters' = AllTiers
          /\ ~ResultsDisplayMounted /\ ResultsDisplayMounted' => programTierFilters' = AllTiers
          /\ \A t \in AllTiers :
                /\ handleTierFilterChange(t) /\ tierFilters = {t} => tierFilters' = {t}
                /\ ProgramTierFilterChange(t) /\ programTierFilters = {t}
                      => programTierFilters' = {t}]_vars

\* the university list shows with one tier checked, after a program search
\* whose results were filtered too
C13_Witness ==
    /\ StageUsable("universities")
    /\ tierFilters = {"low"}
    /\ programDiscoveryResults # None /\ hasTieredResults

\* C14: the step in which a regenerated email arrives leaves alignmentSummary
\* as it was, in the analysis modal's result and in every saved professor;
\* of the modal's result and of a saved professor only outreachEmail and
\* emailSubject may change, and no saved professor is added or removed.
C14_RegenerationKeepsSummary ==
    [][\A r \in requests :
          /\ RegenerateForModalDone(r) /\ analysisModalState # None =>
                /\ analysisModalState' # None
                /\ analysisModalState'[1].professor = analysisModalState[1].professor
                /\ analysisModalState'[1].result.alignmentSummary
                      = analysisModalState[1].result.alignmentSummary
                /\ savedProfessors' = savedProfessors
          /\ RegenerateForSavedDone(r) =>
                /\ DOMAIN savedProfessors' = DOMAIN savedProfessors
                /\ \A i \in DOMAIN savedProfessors :
                      \A f \in DOMAIN savedProfessors[i] \ {"outreachEmail", "emailSubject"} :
                         savedProfessors'[i][f] = savedProfessors[i][f]
                /\ analysisModalState' = analysisModalState]_vars

\* the modal shows a regenerated email under the summary of the analysis, and
\* a saved professor carries a regenerated email under its summary
C14_Witness ==
    /\ ModalShown
    /\ analysisModalState[1].result.outreachEmail = "r3"
    /\ analysisModalState[1].result.alignmentSummary \in {"r1", "r2"}
    /\ \E i \in DOMAIN savedProfessors :
          /\ savedProfessors[i].outreachEmail = "r3"
          /\ savedProfessors[i].alignmentSummary \in {"r1", "r2"}

\* C15: Back from the stage 'professors' leads to 'universities' when the
\* professors shown were found from the tiered university list and to 'search'
\* when they were found directly from the search form, whatever searches and
\* back navigations came before; after it the professor list and the
\* grounding sources are empty.
C15_BackFromProfessors ==
    [][handleBack /\ discoveryStage = "professors" =>
          /\ discoveryStage' = IF reachedFrom = "universities" THEN "universities" ELSE "search"
          /\ professors' = <<>>
          /\ groundingSources' = <<>>]_vars

\* C16: a rejected Gateway call does not take the application away: while its
\* error is set in a signed-in, loaded page the shell with its navigation is
\* still rendered, so the other views can be reached; and the step that
\* records the failure leaves profiles, saved items and sops as they were.
C16_GatewayErrorIsLocal ==
    /\ []((error = "gateway" /\ session # NoSession /\ ~isInitialLoad) => ShellRendered)
    /\ [][\A r \in requests :
            (AnalysisFails(r) \/ ManualEmailFails(r) \/ FindFails(r)) =>
                UNCHANGED <<profiles, activeProfileId, savedProfessors, savedPrograms, sops>>]_vars

\* C17: whenever nobody is signed in, profiles, savedProfessors, savedPrograms
\* and sops are empty and activeProfileId is null, also after a Gateway call
\* that was started before the sign-out has answered.
C17_SignedOutStateIsEmpty ==
    session = NoSession => currentDataInState = EmptyData

\* C18: of each class of Gateway operation (discovery, SOP generation,
\* program discovery, load more) at most one request is in flight, and the
\* class's loading flag is true exactly while one is.
C18_OneRequestPerClass ==
    \A c \in { <<{"universities", "professors", "analysis", "manualEmail"}, isDiscoveryLoading>>,
                <<{"sop"}, isSopLoading>>,
                <<{"programsBroad", "programsSpecific"}, isProgramDiscoveryLoading>>,
                <<{"loadMorePrograms"}, isProgramDiscoveryLoadMoreLoading>> } :
        /\ Cardinality(InFlight(c[1])) <= 1
        /\ c[2] <=> InFlight(c[1]) # {}

\* the rows and cells a CSV reader finds in a text: cells end at commas and
\* rows at line feeds outside quotes, a position being outside quotes when an
\* even number of quotes precedes it; a quoted cell loses its outer quotes and
\* the second quote of each pair inside
ParseCsv(s) ==
    LET quotes == { i \in DOMAIN s : s[i] = "\"" }
        Outside(i) == Cardinality({ q \in quotes : q < i }) % 2 = 0
        Breaks(c) == SelectSeq([ i \in DOMAIN s |-> i ], LAMBDA i : s[i] = c /\ Outside(i))
        Split(from, to, cuts) ==
            [ k \in 1..(Len(cuts) + 1) |->
                << IF k = 1 THEN from ELSE cuts[k - 1] + 1,
                   IF k = Len(cuts) + 1 THEN to ELSE cuts[k] - 1 >> ]
        Unquote(t) ==
            IF t = <<>> \/ t[1] # "\"" THEN t
            ELSE LET inner == SubSeq(t, 2, IF Len(t) > 1 /\ t[Len(t)] = "\"" THEN Len(t) - 1 ELSE Len(t))
                     qs == { i \in DOMAIN inner : inner[i] = "\"" }
                     kept == SelectSeq([ i \in DOMAIN inner |-> i ],
                                       LAMBDA i : i \notin qs \/ Cardinality({ q \in qs : q < i }) % 2 = 0)
                 IN  [ k \in DOMAIN kept |-> inner[kept[k]] ]
        lines == Split(1, Len(s), Breaks("\n"))
        commas == Breaks(",")
    IN  [ r \in DOMAIN lines |->
            LET cells == Split(lines[r][1], lines[r][2],
                               SelectSeq(commas, LAMBDA i : lines[r][1] <= i /\ i <= lines[r][2]))
            IN  [ k \in DOMAIN cells |-> Unquote(SubSeq(s, cells[k][1], cells[k][2])) ] ]
ExportedRows == ParseCsv(exported[1].file)

\* C19: the exported file is the header row followed by exactly one row for
\* each saved professor that passes the search-term and e-mail-status filters,
\* in the displayed sort order
C19_ExportedRowsAreDisplayed ==
    exported # None =>
        LET d == exported[1].displayed
            f == exported[1].filters
            sp == exported[1].saved
            passing == { sp[i] : i \in { j \in DOMAIN sp : MatchesFilters(sp[j], f) } }
        IN  /\ { d[i] : i \in DOMAIN d } = passing
            /\ Len(d) = Cardinality(passing)
            /\ \A i, j \in DOMAIN d : i < j => CompareProfessors(d[i], d[j], f.sortOrder) <= 0
            /\ Len(ExportedRows) = Len(d) + 1
            /\ ExportedRows[1] = ParseCsv(CsvHeaders)[1]
            /\ \A i \in DOMAIN d : ExportedRows[i + 1][1] = d[i].name

\* C20: every exported row shows the record's emailSent value, true or false,
\* in the Email Sent cell, its outcome in the Outcome cell and its feedback in
\* the quoted Notes cell, embedded quotes doubled
C20_UserFieldsVerbatim ==
    exported # None =>
        \A i \in DOMAIN exported[1].displayed :
            i + 1 <= Len(ExportedRows) /\ Len(ExportedRows[i + 1]) = 10 =>
                LET p == exported[1].displayed[i]
                    row == ExportedRows[i + 1]
                IN  /\ row[4] = IF p.emailSent THEN <<"t","r","u","e">> ELSE <<"f","a","l","s","e">>
                    /\ row[5] = p.outcome
                    /\ row[10] = p.feedback

\* C21: while the active profile is missing or not complete, neither the
\* Discover nor the Generate view is rendered and no e-mail or SOP generation
\* is started
C21_IncompleteProfileGates ==
    /\ [](~isProfileComplete => ~ViewRendered("discover") /\ ~ViewRendered("generate"))
    /\ [][~isProfileComplete =>
            LET generations == {"analysis", "manualEmail", "sop", "regenerateModal", "regenerateSaved"}
            IN  InFlight(generations)' \subseteq InFlight(generations)]_vars

\* C22: a failed saveUserData is dropped: nothing is sent again, the local
\* state and the error stay as they are and the store keeps its document;
\* every write carries the whole document in memory when it is issued, and the
\* store holds the document of a write once that write succeeds
C22_FailedSaveIsDropped ==
    /\ [][\A p \in puts : PutFails(p) =>
            /\ puts' = puts \ {p}
            /\ UNCHANGED <<profiles, activeProfileId, savedProfessors, savedPrograms, sops,
                           error, remote>>]_vars
    /\ [][\A p \in puts' \ puts : p.email = session' /\ p.data = currentDataInState']_vars
    /\ [][\A p \in puts : PutArrives(p) => remote'[p.email] = <<p.data>>]_vars

\* a write failed, a later mutation's write succeeded, and the store holds
\* the document in memory, which has what the failed write carried
C22_Witness ==
    /\ puts = {}
    /\ session = "a"
    /\ remote["a"] = <<currentDataInState>>
    /\ \E d \in dropped : /\ d # currentDataInState
                          /\ d.savedProfessors # <<>>
                          /\ \A i \in DOMAIN d.savedProfessors :
                                d.savedProfessors[i] = savedProfessors[i]

\* C27: with no failed write, once every saveUserData call has completed the
\* store holds the document in memory
C27_QuiescentStoreEqualsMemory ==
    (session # NoSession /\ loadedFor = session /\ puts = {} /\ dropped = {}) =>
        remote[session] = <<currentDataInState>>

\* C23: there are never more than five profiles; creating a profile is not
\* possible at five, and below five it appends exactly one profile whose id
\* no other profile has and makes it the active profile
C23_AtMostFiveProfiles ==
    /\ [](Len(profiles) <= MaxProfiles)
    /\ [][handleAddProfile =>
            /\ Len(profiles) < MaxProfiles
            /\ Len(profiles') = Len(profiles) + 1
            /\ SubSeq(profiles', 1, Len(profiles)) = profiles
            /\ \A i \in DOMAIN profiles : profiles[i].id # profiles'[Len(profiles')].id
            /\ activeProfileId' = profiles'[Len(profiles')].id]_vars

\* the fifth profile has been created and is the active one
C23_Witness ==
    /\ Len(profiles) = MaxProfiles
    /\ activeProfileId = profiles[MaxProfiles].id
    /\ \A i \in 1..(MaxProfiles - 1) : profiles[i].id # activeProfileId
    /\ FormShown

\* C26: every SOP, in memory and in every stored document, has the profileId
\* of exactly one profile of the same document
SopsTied(d) ==
    \A i \in DOMAIN d.sops :
        Cardinality({ j \in DOMAIN d.profiles : d.profiles[j].id = d.sops[i].profileId }) = 1
C26_SopTiedToOneProfile ==
    /\ SopsTied(currentDataInState)
    /\ \A a \in Accounts : remote[a] # NoDoc => SopsTied(remote[a][1])

\* C24: when the load of a signed-in user has left zero profiles and no active
\* profile, the profile view offers to create a profile: handleAddProfile is
\* enabled there
C24_FirstProfileCanBeCreated ==
    ( /\ session # NoSession
      /\ loadedFor = session
      /\ profiles = <<>>
      /\ activeProfileId = Null
      /\ ShellUsable
      /\ activeView = "profile"
      /\ nextId <= MaxIds ) => ENABLED handleAddProfile

\* C25: Back moves one stage backward (from the professors to the stage they
\* were reached from) and clears what belongs to the stage it leaves: the
\* selected professor of detail; the professors, grounding sources and
\* selected university of professors; the tiered universities of universities
C25_BackClearsExitedStage ==
    [][handleBack =>
         /\ discoveryStage = "detail" =>
               discoveryStage' = "professors" /\ selectedProfessor' = None
         /\ discoveryStage = "professors" =>
               /\ discoveryStage' \in {"universities", "search"}
               /\ professors' = <<>>
               /\ groundingSources' = <<>>
               /\ selectedUniversity' = None
         /\ discoveryStage = "universities" =>
               discoveryStage' = "search" /\ universities' = None]_vars

\* C28: the response of a load whose session has been replaced is discarded:
\* its completion changes none of profiles, activeProfileId, savedProfessors,
\* savedPrograms and sops, and it does not set the error
C28_StaleLoadIsDiscarded ==
    [][\A acct \in Accounts, fails \in BOOLEAN :
          StaleLoadComplete(acct, fails) =>
              UNCHANGED <<profiles, activeProfileId, savedProfessors, savedPrograms,
                          sops, error>>]_vars

\* C29: profile ids are pairwise distinct in every state, and saving the draft
\* replaces only the profile whose id is activeProfileId, by a draft of that
\* same id, also when another profile was selected while an extraction for
\* the previous one was in flight
C29_SaveKeepsIdsDistinct ==
    /\ [](\A i, j \in DOMAIN profiles : profiles[i].id = profiles[j].id => i = j)
    /\ [][handleSaveProfile =>
             /\ editedProfile[1].id = activeProfileId
             /\ Len(profiles') = Len(profiles)
             /\ \A i \in DOMAIN profiles :
                   profiles'[i] = IF profiles[i].id = activeProfileId
                                  THEN editedProfile[1] ELSE profiles[i]]_vars

\* C30: whenever the discovery stage is search or universities, the professor
\* list and the grounding sources are empty, also when a load more issued in
\* the professors stage answers after the user went back
C30_NoProfessorsBeforeTheirStage ==
    discoveryStage \in {"search", "universities"} =>
        professors = <<>> /\ groundingSources = <<>>

====
